---- MODULE Spec2Model ----
(***************************************************************************)
(* Model of the LingoSub subtitle translation server: the batch            *)
(* translation orchestrator (app/services/translation_service.py), the     *)
(* rate limiter (app/services/rate_limiter.py), the unit model             *)
(* (app/services/srt_processor.py) and the document task                   *)
(* (app/worker/tasks.py).                                                  *)
(*                                                                         *)
(* A text is a sequence of symbols.  A symbol is a one-character string    *)
(* (digit, dot, blank, newline) or an opaque word such as "u3" that stands *)
(* for a run of non-blank, non-digit characters.                           *)
(***************************************************************************)
EXTENDS Integers, Sequences, FiniteSets, Bags, TLC

VARIABLES
    input,    \* the arguments of the top-level translate_batch call
    stack,    \* the call frames of translate_batch, the running one last
    status,   \* "running", "done" (returned) or "raised" (left by an exception)
    result,   \* the list the top-level call returned
    now,      \* the clock time.time() and the store read, in seconds
    store,    \* the shared store: the counter kept under each key:window
    callers,  \* the acquire() calls of the threads and workers sharing the key
    task,     \* the document task translate_srt_task
    sidecar   \* the objects of the python-engines sidecar process

orchestrator == <<input, stack, status, result>>
limiter == <<now, store, callers>>
vars == <<input, stack, status, result, now, store, callers, task, sidecar>>

(***************************************************************************)
(* Bounds of the model.                                                    *)
(***************************************************************************)
MaxBatch == 9
MaxRetries == 2
MaxDropped == 1
\* the longest digit string int() converts: stands for the interpreter's
\* sys.int_info.default_max_str_digits (4300), scaled down
MaxStrDigits == 3

(***************************************************************************)
(* Program constants.                                                      *)
(***************************************************************************)
MIN_BATCH_SIZE_FOR_RECURSION == 5
DefaultMaxRetries == 2

(***************************************************************************)
(* Symbols and the string primitives of the code.                          *)
(***************************************************************************)
DigitChars == <<"0", "1", "2", "3", "4", "5", "6", "7", "8", "9">>

IsDigit(c) == \E d \in 1..10 : DigitChars[d] = c

DigitVal(c) == (CHOOSE d \in 1..10 : DigitChars[d] = c) - 1

IsSpace(c) == c \in {" ", "\n", "\t"}

RECURSIVE LStrip(_)
LStrip(s) == IF s # <<>> /\ IsSpace(Head(s)) THEN LStrip(Tail(s)) ELSE s

RECURSIVE RStrip(_)
RStrip(s) ==
    IF s # <<>> /\ IsSpace(s[Len(s)]) THEN RStrip(SubSeq(s, 1, Len(s) - 1)) ELSE s

\* str.strip()
Strip(s) == RStrip(LStrip(s))

\* str.split(sep): the pieces between separators, empty pieces kept
Split(s, sep) ==
    LET seps == {i \in 1..Len(s) : s[i] = sep}
        \* position of the j-th separator; 0 before the text, Len(s)+1 after it
        Pos(j) == IF j = 0 THEN 0
                  ELSE IF j > Cardinality(seps) THEN Len(s) + 1
                  ELSE CHOOSE i \in seps : Cardinality({x \in seps : x < i}) = j - 1
    IN  [j \in 1..(Cardinality(seps) + 1) |-> SubSeq(s, Pos(j - 1) + 1, Pos(j) - 1)]

\* sep.join(parts)
RECURSIVE Join(_, _)
Join(parts, sep) ==
    IF parts = <<>> THEN <<>>
    ELSE IF Len(parts) = 1 THEN parts[1]
    ELSE parts[1] \o <<sep>> \o Join(Tail(parts), sep)

\* str(k) for k >= 0
RECURSIVE IntToStr(_)
IntToStr(k) ==
    IF k < 10 THEN <<DigitChars[k + 1]>>
    ELSE IntToStr(k \div 10) \o <<DigitChars[(k % 10) + 1]>>

\* int(digits)
RECURSIVE StrToInt(_)
StrToInt(ds) ==
    IF ds = <<>> THEN 0
    ELSE 10 * StrToInt(SubSeq(ds, 1, Len(ds) - 1)) + DigitVal(ds[Len(ds)])

\* length of the longest prefix of digits: the greedy \d+ of the regex
RECURSIVE DigitPrefixLen(_)
DigitPrefixLen(s) ==
    IF s # <<>> /\ IsDigit(Head(s)) THEN 1 + DigitPrefixLen(Tail(s)) ELSE 0

(***************************************************************************)
(* re.match of the numbered-line pattern (digits, a dot, optional blanks,   *)
(* the rest of the line): whether it matches, and its two groups.          *)
(***************************************************************************)
ReMatches(line) ==
    LET nd == DigitPrefixLen(line)
    IN  nd > 0 /\ Len(line) > nd /\ line[nd + 1] = "."

ReGroup1(line) == SubSeq(line, 1, DigitPrefixLen(line))

ReGroup2(line) == LStrip(SubSeq(line, DigitPrefixLen(line) + 2, Len(line)))

\* line 56: int() raises ValueError on more digits than the interpreter converts
IntRaises(digits) == Len(digits) > MaxStrDigits

EmptyMap == [k \in {} |-> <<>>]

\* the loop body of _get_numbered_text_map for one line
MapPut(result_map, line) ==
    LET l == Strip(line)
    IN  IF ReMatches(l)
        THEN (StrToInt(ReGroup1(l)) :> Strip(ReGroup2(l))) @@ result_map
        ELSE result_map

RECURSIVE MapFold(_, _)
MapFold(result_map, lines) ==
    IF lines = <<>> THEN result_map
    ELSE MapFold(MapPut(result_map, Head(lines)), Tail(lines))

\* _get_numbered_text_map(text): the map it returns when it returns
GetNumberedTextMap(text) == MapFold(EmptyMap, Split(Strip(text), "\n"))

\* the lines of a text that match the pattern, stripped, in order
MatchingLines(text) ==
    LET lines == Split(Strip(text), "\n")
    IN  SelectSeq([j \in 1..Len(lines) |-> Strip(lines[j])], ReMatches)

\* line 56 raises in the turn of the loop for this line
LineRaises(line) == ReMatches(Strip(line)) /\ IntRaises(ReGroup1(Strip(line)))

RECURSIVE AnyLineRaises(_)
AnyLineRaises(lines) ==
    lines # <<>> /\ (LineRaises(Head(lines)) \/ AnyLineRaises(Tail(lines)))

\* _get_numbered_text_map(text) is left by the ValueError of line 56
DecoderRaises(text) == AnyLineRaises(Split(Strip(text), "\n"))

(***************************************************************************)
(* The document: translation units as batch_for_translation builds them,   *)
(* here subtitles of two lines each; unit j carries the source word u<j>.  *)
(* id tells the dict objects apart: the caller's unit j is object j, and a *)
(* dict made by item.copy() is a new object, 0.                              *)
(***************************************************************************)
SrcWord == <<"u1", "u2", "u3", "u4", "u5", "u6", "u7", "u8", "u9", "u10", "u11", "u12">>

Unit(j) ==
    [original_index |-> (j + 1) \div 2, sub_index |-> (j + 1) % 2, text |-> <<SrcWord[j]>>,
     id |-> j]

Units(n) == [j \in 1..n |-> Unit(j)]

UnitNo(item) == CHOOSE j \in 1..Len(SrcWord) : SrcWord[j] = item.text[1]

(***************************************************************************)
(* The LLM.  A call raises, returns a message without content, or returns  *)
(* text.  The text on the line that declares number k of a batch reply is  *)
(* the word b<j> (c<j> on a repeated line), j the unit at position k of    *)
(* the prompt; a single-unit call answers s<j>.  The words only name where *)
(* a text came from: the orchestrator never inspects them.                 *)
(***************************************************************************)
BWord == <<"b1", "b2", "b3", "b4", "b5", "b6", "b7", "b8", "b9", "b10", "b11", "b12">>
CWord == <<"c1", "c2", "c3", "c4", "c5", "c6", "c7", "c8", "c9", "c10", "c11", "c12">>
SWord == <<"s1", "s2", "s3", "s4", "s5", "s6", "s7", "s8", "s9", "s10", "s11", "s12">>

Raised == [kind |-> "raise", content |-> <<>>]
NoContent == [kind |-> "none", content |-> <<>>]
Text(t) == [kind |-> "text", content |-> t]
NoResp == [kind |-> "nil", content |-> <<>>]

NumLine(k, body) == IntToStr(k) \o <<".", " ">> \o body

\* the reply line declaring k: for k beyond the batch an invented line
LineFor(batch, k) ==
    IF k <= Len(batch) THEN NumLine(k, <<BWord[UnitNo(batch[k])]>>)
    ELSE NumLine(k, <<"x">>)

\* the lines declaring the numbers of S, ascending from k
RECURSIVE LinesOver(_, _, _)
LinesOver(batch, S, k) ==
    IF k > Len(batch) + 1 THEN <<>>
    ELSE (IF k \in S THEN <<LineFor(batch, k)>> ELSE <<>>) \o LinesOver(batch, S, k + 1)

RECURSIVE Reverse(_)
Reverse(s) == IF s = <<>> THEN <<>> ELSE Reverse(Tail(s)) \o <<Head(s)>>

PerfectLines(batch) == LinesOver(batch, 1..Len(batch), 1)

PaddedLine(batch, k) ==
    IntToStr(k) \o <<".">> \o <<" ", " ">> \o <<BWord[UnitNo(batch[k])], " ">>

TightLine(batch, k) == IntToStr(k) \o <<".">> \o <<BWord[UnitNo(batch[k])]>>

OverlongLine == [d \in 1..(MaxStrDigits + 1) |-> "9"] \o <<".", " ", "x">>

BatchReplyTexts(batch) ==
    LET n == Len(batch)
        \* up to MaxDropped lines left out
        dropped == { Join(LinesOver(batch, (1..n) \ D, 1), "\n") :
                       D \in {D \in SUBSET (1..n) : Cardinality(D) <= MaxDropped} }
        \* one line left out and one invented: the right count, a wrong number
        shifted == { Join(LinesOver(batch, ((1..n) \ {d}) \cup {n + 1}, 1), "\n") :
                       d \in 1..n }
        long == { Join(LinesOver(batch, 1..(n + 1), 1), "\n") }
        scrambled == { Join(Reverse(PerfectLines(batch)), "\n") }
        chatty == { <<"Sure", ":", "\n">> \o Join(PerfectLines(batch), "\n") \o <<"\n">> }
        padded == { Join([k \in 1..n |-> IF k % 2 = 1 THEN PaddedLine(batch, k)
                                                     ELSE TightLine(batch, k)], "\n") }
        \* a number declared twice, the second time with another text
        dup == { Join(Append(PerfectLines(batch),
                             NumLine(k, <<CWord[UnitNo(batch[k])]>>)), "\n") : k \in 1..n }
        \* line d declares the number of line d-1 again
        renumbered == { Join([k \in 1..n |->
                               IF k = d THEN NumLine(d - 1, <<CWord[UnitNo(batch[d - 1])]>>)
                                        ELSE LineFor(batch, k)], "\n") : d \in 2..n }
        prose == { <<>>, <<"Sorry", " ", "no", "\n", "idea">> }
        \* a further line declaring a number of more digits than int() converts
        overlong == { Join(Append(PerfectLines(batch), OverlongLine), "\n") }
    IN  dropped \cup shifted \cup long \cup scrambled \cup chatty \cup padded
          \cup dup \cup renumbered \cup prose \cup overlong

\* the outcomes of client.chat.completions.create for a batch prompt
BatchOutcomes(batch) == {Raised, NoContent} \cup {Text(t) : t \in BatchReplyTexts(batch)}

\* the outcomes of client.chat.completions.create for one unit's text
SingleOutcomes(item) ==
    {Raised, NoContent, Text(<<" ", SWord[UnitNo(item)], "\n">>)}

(***************************************************************************)
(* The texts the orchestrator writes itself.                               *)
(***************************************************************************)
Missing == <<"[Translation Missing]">>

PlaceholderKeepsOriginal(text) == text

Placeholder(text) == <<"[Translation Error: ">> \o text \o <<"]">>

ItemWithTextLosesSubIndex(item, text) ==
    [original_index |-> item.original_index, sub_index |-> 0, text |-> text, id |-> 0]

\* new_item = item; new_item['text'] = text: the caller's dict is written
ItemWithTextInPlace(item, text) == [item EXCEPT !.text = text]

\* new_item = item.copy(); new_item['text'] = text
ItemWithText(item, text) == [item EXCEPT !.text = text, !.id = 0]

(***************************************************************************)
(* Call frames of translate_batch.  _fallback_to_single_items and          *)
(* _translate_single_text run inside the frame of their caller; via tells  *)
(* which loop called _translate_single_text.  resp, singles and path       *)
(* record what the invocation did: the last batch response, the positions  *)
(* handed to _translate_single_text, and the branch that produced out;     *)
(* failed lists the positions whose single-unit call was left by an        *)
(* exception, and calls tells whether the LLM calls made so far by the     *)
(* invocation and the invocations it called were none, all "raised", or    *)
(* "mixed" (one at least returned a response); sent lists the ids of the   *)
(* units that the invocations it called handed to _translate_single_text.  *)
(***************************************************************************)
NewFrame(batch, max_retries) ==
    [batch |-> batch, max_retries |-> max_retries, attempt |-> 0, pc |-> "entry",
     i |-> 0, via |-> "none", translated_map |-> EmptyMap, out |-> <<>>,
     first_half |-> <<>>, resp |-> NoResp, singles |-> <<>>, path |-> "none",
     failed |-> <<>>, calls |-> "none", sent |-> <<>>]

Top == stack[Len(stack)]

Returning(f, out, path) == [f EXCEPT !.out = out, !.path = path, !.pc = "return"]

\* an invocation out of attempts gives up instead of splitting
LoopCheckReraises(f) ==
    IF f.attempt < f.max_retries THEN [f EXCEPT !.pc = "batch_acquire"]
    ELSE IF f.attempt > 0 THEN [f EXCEPT !.pc = "raise"]
    ELSE [f EXCEPT !.pc = "call_first"]

\* while attempt <= max_retries: one attempt too many
LoopCheckOneMore(f) ==
    IF f.attempt <= f.max_retries THEN [f EXCEPT !.pc = "batch_acquire"]
    ELSE [f EXCEPT !.pc = "call_first"]

\* the while test of line 93, and the split of lines 153-156 when it fails
LoopCheck(f) ==
    IF f.attempt < f.max_retries THEN [f EXCEPT !.pc = "batch_acquire"]
    ELSE [f EXCEPT !.pc = "call_first"]

MidPointRoundsUp(f) == (Len(f.batch) + 1) \div 2

\* mid_point = expected_count // 2
MidPoint(f) == Len(f.batch) \div 2

ReconstructedOffByOne(batch, translated_map) ==
    [p \in 1..Len(batch) |->
        ItemWithText(batch[p], IF (p - 1) \in DOMAIN translated_map
                               THEN translated_map[p - 1] ELSE Missing)]

\* translated_map.get(i + 1, item['text']): an absent position keeps its text
ReconstructedKeepsOriginal(batch, translated_map) ==
    [p \in 1..Len(batch) |->
        ItemWithText(batch[p], IF p \in DOMAIN translated_map
                               THEN translated_map[p] ELSE batch[p].text)]

\* lines 113-119: the batch rebuilt from a map of the expected size
Reconstructed(batch, translated_map) ==
    [p \in 1..Len(batch) |->
        ItemWithText(batch[p], IF p \in DOMAIN translated_map THEN translated_map[p]
                                                               ELSE Missing)]

RECURSIVE RepairMarksAbsent(_, _)
RepairMarksAbsent(f, p) ==
    IF p > Len(f.batch) THEN Returning(f, f.out, "repair")
    ELSE RepairMarksAbsent(
             [f EXCEPT !.out = Append(@, ItemWithText(f.batch[p],
                                   IF p \in DOMAIN f.translated_map
                                   THEN f.translated_map[p] ELSE Missing))], p + 1)

\* the repair calls the LLM for an absent position without acquire()
RECURSIVE RepairSkipsAcquire(_, _)
RepairSkipsAcquire(f, p) ==
    IF p > Len(f.batch) THEN Returning(f, f.out, "repair")
    ELSE IF p \in DOMAIN f.translated_map
         THEN RepairSkipsAcquire([f EXCEPT !.out = Append(@, ItemWithText(f.batch[p],
                                                          f.translated_map[p]))], p + 1)
         ELSE [f EXCEPT !.i = p, !.via = "repair", !.pc = "single_create",
                        !.singles = Append(@, p)]

\* a repair that translates every unit on its own, present in the map or not
RepairSendsAll(f, p) ==
    IF p > Len(f.batch) THEN Returning(f, f.out, "repair")
    ELSE [f EXCEPT !.i = p, !.via = "repair", !.pc = "single_acquire",
                   !.singles = Append(@, p)]

\* lines 128-145 from position p on, up to the next call of _translate_single_text
RECURSIVE RepairFrom(_, _)
RepairFrom(f, p) ==
    IF p > Len(f.batch) THEN Returning(f, f.out, "repair")
    ELSE IF p \in DOMAIN f.translated_map
         THEN RepairFrom([f EXCEPT !.out = Append(@, ItemWithText(f.batch[p],
                                                          f.translated_map[p]))], p + 1)
         ELSE [f EXCEPT !.i = p, !.via = "repair", !.pc = "single_acquire",
                        !.singles = Append(@, p)]

\* lines 164-175 from position p on, up to the next call of _translate_single_text
FallbackFrom(f, p) ==
    IF p > Len(f.batch) THEN Returning(f, f.out, "fallback")
    ELSE [f EXCEPT !.i = p, !.via = "fallback", !.pc = "single_acquire",
                   !.singles = Append(@, p)]

\* the loop that called _translate_single_text goes on after position f.i
Continue(f, text) ==
    LET g == [f EXCEPT !.out = Append(@, ItemWithText(f.batch[f.i], text))]
    IN  IF f.via = "repair" THEN RepairFrom(g, f.i + 1) ELSE FallbackFrom(g, f.i + 1)

HandlerAcquireOutsideTry(f) ==
    IF f.pc = "batch_create" THEN "attempt"
    ELSE IF f.pc \in {"single_acquire", "single_create"} THEN f.via
    ELSE "none"

\* the try block that encloses the statement the frame is at
Handler(f) ==
    IF f.pc \in {"batch_acquire", "batch_create"} THEN "attempt"
    ELSE IF f.pc \in {"single_acquire", "single_create"} THEN f.via
    ELSE "none"

OnRaiseDropsUnit(f) ==
    CASE Handler(f) = "attempt" -> LoopCheck([f EXCEPT !.attempt = @ + 1])
      [] Handler(f) = "repair" -> RepairFrom(f, f.i + 1)
      [] Handler(f) = "fallback" -> FallbackFrom(f, f.i + 1)
      [] OTHER -> [f EXCEPT !.pc = "raise"]

OnRaiseKeepsAttempt(f) ==
    CASE Handler(f) = "attempt" -> LoopCheck(f)
      [] Handler(f) \in {"repair", "fallback"} -> Continue(f, Placeholder(f.batch[f.i].text))
      [] OTHER -> [f EXCEPT !.pc = "raise"]

\* the exception handler of lines 170-174 stops at the first failure: the
\* units left get the placeholder without a call
RECURSIVE MarkRest(_, _)
MarkRest(f, p) ==
    IF p > Len(f.batch) THEN Returning(f, f.out, f.via)
    ELSE MarkRest([f EXCEPT !.out = Append(@, ItemWithText(f.batch[p],
                                              Placeholder(f.batch[p].text)))], p + 1)

OnRaiseAbandonsRest(f) ==
    CASE Handler(f) = "attempt" -> LoopCheck([f EXCEPT !.attempt = @ + 1])
      [] Handler(f) \in {"repair", "fallback"} ->
            MarkRest([f EXCEPT !.failed = Append(@, f.i)], f.i)
      [] OTHER -> [f EXCEPT !.pc = "raise"]

\* an exception raised by the statement the frame is at
OnRaise(f) ==
    CASE Handler(f) = "attempt" -> LoopCheck([f EXCEPT !.attempt = @ + 1])
      [] Handler(f) \in {"repair", "fallback"} ->
            Continue([f EXCEPT !.failed = Append(@, f.i)], Placeholder(f.batch[f.i].text))
      [] OTHER -> [f EXCEPT !.pc = "raise"]

OnBatchResponseRaisesOnMismatch(f, r) ==
    IF r.kind = "none" THEN OnRaise([f EXCEPT !.resp = r])
    ELSE LET translated_map == GetNumberedTextMap(Strip(r.content))
             g == [f EXCEPT !.resp = r, !.translated_map = translated_map]
         IN  IF DecoderRaises(Strip(r.content)) THEN OnRaise([f EXCEPT !.resp = r])
             ELSE IF Cardinality(DOMAIN translated_map) = Len(f.batch)
             THEN Returning(g, Reconstructed(f.batch, translated_map), "success")
             ELSE OnRaise(g)

\* lines 105-145: a batch response arrived
OnBatchResponse(f, r) ==
    IF r.kind = "none" THEN OnRaise([f EXCEPT !.resp = r])
    ELSE LET translated_text == Strip(r.content)
             translated_map == GetNumberedTextMap(translated_text)
             g == [f EXCEPT !.resp = r, !.translated_map = translated_map]
         IN  IF DecoderRaises(translated_text) THEN OnRaise([f EXCEPT !.resp = r])
             ELSE IF Cardinality(DOMAIN translated_map) = Len(f.batch)
             THEN Returning(g, Reconstructed(f.batch, translated_map), "success")
             ELSE RepairFrom(g, 1)

\* lines 67-75: the response of a single-unit call arrived
OnSingleResponse(f, r) ==
    IF r.kind = "none" THEN OnRaise(f) ELSE Continue(f, Strip(r.content))

\* the frame once client.chat.completions.create has raised or returned r
Noted(f, r) ==
    [f EXCEPT !.calls = IF r.kind = "raise" /\ @ # "mixed" THEN "raised" ELSE "mixed"]

\* the calls of an invocation and of one it called, taken together
Merged(a, b) ==
    IF "mixed" \in {a, b} THEN "mixed" ELSE IF "raised" \in {a, b} THEN "raised" ELSE "none"

\* the frame the running invocation moves to, or the uncaught exception
Move(f) ==
    /\ stack' = [stack EXCEPT ![Len(stack)] = f]
    /\ status' = IF f.pc = "raise" THEN "raised" ELSE status
    /\ UNCHANGED <<input, result, limiter, task, sidecar>>

Running == status = "running" /\ stack # <<>>

(***************************************************************************)
(* The steps of translate_batch.                                           *)
(***************************************************************************)
BelowBatchingOffByOne(n) == n < MIN_BATCH_SIZE_FOR_RECURSION - 1

\* line 85: expected_count < MIN_BATCH_SIZE_FOR_RECURSION
BelowBatching(n) == n < MIN_BATCH_SIZE_FOR_RECURSION

\* lines 81-92
Enter ==
    /\ Running /\ Top.pc = "entry"
    /\ LET n == Len(Top.batch)
       IN  Move(IF n = 0 THEN Returning(Top, <<>>, "empty")
                ELSE IF BelowBatching(n) THEN FallbackFrom(Top, 1)
                ELSE LoopCheck(Top))

\* line 95: rate_limiter.acquire() returns or raises
BatchAcquire ==
    /\ Running /\ Top.pc = "batch_acquire"
    /\ \E ok \in BOOLEAN :
          Move(IF ok THEN [Top EXCEPT !.pc = "batch_create"] ELSE OnRaise(Top))

\* lines 97-145: the batch call and what follows its response
BatchCreate ==
    /\ Running /\ Top.pc = "batch_create"
    /\ \E r \in BatchOutcomes(Top.batch) :
          Move(IF r.kind = "raise" THEN OnRaise(Noted(Top, r))
               ELSE OnBatchResponse(Noted(Top, r), r))

\* line 65
SingleAcquire ==
    /\ Running /\ Top.pc = "single_acquire"
    /\ \E ok \in BOOLEAN :
          Move(IF ok THEN [Top EXCEPT !.pc = "single_create"] ELSE OnRaise(Top))

\* lines 67-75
SingleCreate ==
    /\ Running /\ Top.pc = "single_create"
    /\ \E r \in SingleOutcomes(Top.batch[Top.i]) :
          Move(IF r.kind = "raise" THEN OnRaise(Noted(Top, r))
               ELSE OnSingleResponse(Noted(Top, r), r))

\* line 156
CallFirstHalf ==
    /\ Running /\ Top.pc = "call_first"
    /\ stack' = Append([stack EXCEPT ![Len(stack)].pc = "wait_first"],
                       NewFrame(SubSeq(Top.batch, 1, MidPoint(Top)), DefaultMaxRetries))
    /\ UNCHANGED <<input, status, result, limiter, task, sidecar>>

\* line 157
CallSecondHalf ==
    /\ Running /\ Top.pc = "call_second"
    /\ stack' = Append([stack EXCEPT ![Len(stack)].pc = "wait_second"],
                       NewFrame(SubSeq(Top.batch, MidPoint(Top) + 1, Len(Top.batch)),
                                DefaultMaxRetries))
    /\ UNCHANGED <<input, status, result, limiter, task, sidecar>>

\* what the caller does with the value a recursive call returned
Resume(caller, value) ==
    IF caller.pc = "wait_first"
    THEN [caller EXCEPT !.first_half = value, !.pc = "call_second"]
    ELSE Returning(caller, caller.first_half \o value, "split")

\* the units handed to _translate_single_text by the invocations f called
\* and by f itself
SentBy(f) == f.sent \o [k \in 1..Len(f.singles) |-> f.batch[f.singles[k]].id]

\* the frame a returning invocation goes back to
Caller == [stack[Len(stack) - 1] EXCEPT !.calls = Merged(@, Top.calls),
                                        !.sent = @ \o SentBy(Top)]

\* a return statement: the value goes to the caller, or out of the top call
Return ==
    /\ Running /\ Top.pc = "return"
    /\ IF Len(stack) = 1
       THEN /\ stack' = <<>>
            /\ status' = "done"
            /\ result' = Top.out
       ELSE /\ stack' = [SubSeq(stack, 1, Len(stack) - 1) EXCEPT
                           ![Len(stack) - 1] = Resume(Caller, Top.out)]
            /\ UNCHANGED <<status, result>>
    /\ UNCHANGED <<input, limiter, task, sidecar>>

Init ==
    /\ \E n \in 0..MaxBatch, m \in -1..MaxRetries :
          /\ input = [batch |-> Units(n), max_retries |-> m]
          /\ stack = <<NewFrame(Units(n), m)>>
    /\ status = "running"
    /\ result = <<>>
    /\ now = 0 /\ store = <<>> /\ callers = <<>>
    /\ task = <<>>
    /\ sidecar = <<>>

Next ==
    \/ Enter
    \/ BatchAcquire
    \/ BatchCreate
    \/ SingleAcquire
    \/ SingleCreate
    \/ CallFirstHalf
    \/ CallSecondHalf
    \/ Return

Spec == Init /\ [][Next]_vars

\* the calling thread keeps running: every acquire() and every LLM call it
\* waits for returns or raises
SpecFair == Spec /\ WF_vars(Next)

(***************************************************************************)
(* Properties of translate_batch.                                          *)
(***************************************************************************)
Frames == {stack[k] : k \in 1..Len(stack)}

\* the last batch response of the invocation had text that was decoded
Decoded(f) == f.resp.kind = "text" /\ ~DecoderRaises(Strip(f.resp.content))

SplitPcs == {"call_first", "wait_first", "call_second", "wait_second"}

\* the tagged placeholder "[Translation Error: <original text>]" of a unit
Tagged(item) == <<"[Translation Error: ">> \o item.text \o <<"]">>

\* the texts the LLM returns for a unit: on the line declaring the unit's
\* position in a batch reply, or in the unit's own single-unit call
Offers(item) ==
    { <<BWord[UnitNo(item)]>>, <<CWord[UnitNo(item)]>> }
      \cup { Strip(r.content) : r \in {o \in SingleOutcomes(item) : o.kind = "text"} }

\* C1: every invocation of translate_batch, whatever the batch size, the
\* retry budget and the LLM do, returns a list as long as its batch, on the
\* empty, fallback, success, repair and split paths alike.
CountInvariant ==
    /\ \A f \in Frames : f.pc = "return" => Len(f.out) = Len(f.batch)
    /\ status = "done" => Len(result) = Len(input.batch)

\* a call that was split, one half of which lost a unit to a failed
\* single-unit call, has returned
CountWitness ==
    /\ status = "done"
    /\ Len(input.batch) = MIN_BATCH_SIZE_FOR_RECURSION
    /\ result[1].text = Tagged(input.batch[1])
    /\ result[5].text \in Offers(input.batch[5])

\* C2: the i-th unit returned carries the original_index and sub_index of
\* the i-th unit of the batch, on every path, scrambled replies included.
OrderInvariant ==
    /\ \A f \in Frames : f.pc = "return" =>
          \A p \in 1..Len(f.batch) :
             /\ p <= Len(f.out)
             /\ f.out[p].original_index = f.batch[p].original_index
             /\ f.out[p].sub_index = f.batch[p].sub_index
    /\ status = "done" =>
          \A p \in 1..Len(input.batch) :
             /\ p <= Len(result)
             /\ result[p].original_index = input.batch[p].original_index
             /\ result[p].sub_index = input.batch[p].sub_index

\* an invocation returns from a reply whose lines came in reverse order
OrderWitness ==
    \E f \in Frames :
       /\ f.pc = "return" /\ f.path = "success"
       /\ f.resp.content = Join(Reverse(PerfectLines(f.batch)), "\n")
       /\ f.out[2].sub_index = 1

\* C3: translate_batch is never left by an exception, whether the LLM
\* raises or answers anything, and whether acquire() raises.
NeverRaises == status # "raised"

\* every batch attempt and every single-unit call failed, and the call
\* still returned, every unit marked
NeverRaisesWitness ==
    /\ status = "done"
    /\ Len(input.batch) >= MIN_BATCH_SIZE_FOR_RECURSION
    /\ input.max_retries > 0
    /\ \A p \in 1..Len(input.batch) : result[p].text = Tagged(input.batch[p])

\* C4 as stated: every returned text is a text the LLM returned for that
\* unit or the tagged placeholder.
OnlyTranslationOrPlaceholder ==
    status = "done" =>
       \A p \in 1..Len(result) :
          result[p].text \in Offers(input.batch[p]) \cup {Tagged(input.batch[p])}

\* C4 amended: every returned text is a text the LLM returned for that
\* unit, the tagged placeholder, or the sentinel "[Translation Missing]";
\* the sentinel is written only on the success path, for a position the
\* decoded map of the expected size does not hold.
TranslationPlaceholderOrMissing ==
    /\ status = "done" =>
          \A p \in 1..Len(result) :
             result[p].text \in Offers(input.batch[p])
                                  \cup {Tagged(input.batch[p]), <<"[Translation Missing]">>}
    /\ \A f \in Frames : (f.pc = "return" /\ f.path # "split") =>
          \A p \in 1..Len(f.out) :
             f.out[p].text = <<"[Translation Missing]">> =>
                /\ f.path = "success"
                /\ p \notin DOMAIN f.translated_map
                /\ Cardinality(DOMAIN f.translated_map) = Len(f.batch)

\* a call returned a unit marked missing next to a translated one
MissingWitness ==
    /\ status = "done"
    /\ \E p, q \in 1..Len(result) :
          /\ result[p].text = <<"[Translation Missing]">>
          /\ result[q].text = <<BWord[UnitNo(input.batch[q])]>>

\* text is a numbered list of exactly n lines, line k starting with "k."
IsPerfectList(text, n) ==
    LET lines == Split(text, "\n")
    IN  /\ n > 0 /\ Len(lines) = n
        /\ \A k \in 1..n :
              LET pre == IntToStr(k) \o <<".">>
              IN  Len(lines[k]) >= Len(pre) /\ SubSeq(lines[k], 1, Len(pre)) = pre

\* the text of line k of a perfect list, without its number and trimmed
LineText(text, k) ==
    LET line == Split(text, "\n")[k]
    IN  Strip(SubSeq(line, Len(IntToStr(k)) + 2, Len(line)))

\* C5: when the batch response is a perfectly numbered list of exactly
\* len(batch) lines, the invocation returns at once, position p carrying the
\* trimmed text of line p, and hands no unit to a single-unit call.
PerfectListVerbatim ==
    \A f \in Frames :
       (f.resp.kind = "text" /\ IsPerfectList(f.resp.content, Len(f.batch))) =>
          /\ f.pc = "return" /\ f.path = "success"
          /\ f.singles = <<>>
          /\ Len(f.out) = Len(f.batch)
          /\ \A p \in 1..Len(f.batch) : f.out[p].text = LineText(f.resp.content, p)

\* a second attempt got a perfect list whose lines carry blanks to trim
PerfectListWitness ==
    \E f \in Frames :
       /\ f.resp.kind = "text" /\ IsPerfectList(f.resp.content, Len(f.batch))
       /\ f.attempt = 1
       /\ \E p \in 1..Len(f.batch) :
             LET line == Split(f.resp.content, "\n")[p] IN line[Len(line)] = " "

\* the positions of 1..n a map does not hold, ascending from p
RECURSIVE AbsentFrom(_, _, _)
AbsentFrom(m, n, p) ==
    IF p > n THEN <<>>
    ELSE (IF p \in DOMAIN m THEN <<>> ELSE <<p>>) \o AbsentFrom(m, n, p + 1)

\* C6: when a batch response decodes to a map whose size differs from
\* len(batch), the invocation only makes single-unit calls from then on and
\* returns: a position the map holds with the map's text, a position it
\* lacks with the answer of its own single-unit call or the tagged
\* placeholder; the single-unit calls made are exactly one per absent
\* position, in order.
SurgicalRepair ==
    \A f \in Frames :
       LET m == GetNumberedTextMap(f.resp.content)
           n == Len(f.batch)
       IN  (Decoded(f) /\ Cardinality(DOMAIN m) # n) =>
              /\ f.pc \in {"single_acquire", "single_create", "return"}
              /\ f.pc = "return" =>
                    /\ f.singles = AbsentFrom(m, n, 1)
                    /\ Len(f.out) = n
                    /\ \A p \in 1..n :
                          IF p \in DOMAIN m THEN f.out[p].text = m[p]
                          ELSE f.out[p].text \in
                                 {<<SWord[UnitNo(f.batch[p])]>>, Tagged(f.batch[p])}

\* a reply missing one line was repaired by one single-unit call
SurgicalRepairWitness ==
    \E f \in Frames :
       /\ f.pc = "return" /\ f.path = "repair"
       /\ Len(f.batch) = MaxBatch
       /\ f.singles = <<3>>
       /\ f.out[3].text = <<SWord[UnitNo(f.batch[3])]>>
       /\ f.out[4].text = <<BWord[UnitNo(f.batch[4])]>>

\* C7 as stated: an invocation whose batch call returned a response makes
\* no further batch-level call and never splits.
NoBatchCallAfterResponse ==
    \A f \in Frames :
       f.resp.kind \in {"none", "text"} =>
          /\ f.pc \in {"single_acquire", "single_create", "return"}
          /\ f.pc = "return" => f.path \in {"success", "repair"}

\* C7 amended: an invocation whose batch call returned a response with text
\* content that was read and decoded without an exception makes no further
\* batch-level call and never splits: it returns the success or the
\* repaired result, within the attempt that got it.
NoBatchCallAfterText ==
    \A f \in Frames :
       Decoded(f) =>
          /\ f.pc \in {"single_acquire", "single_create", "return"}
          /\ f.pc = "return" => f.path \in {"success", "repair"}
          /\ f.attempt < f.max_retries

\* a first attempt's short reply is being repaired, an attempt left unused
NoBatchCallAfterTextWitness ==
    \E f \in Frames :
       /\ f.resp.kind = "text" /\ f.pc = "return" /\ f.path = "repair"
       /\ f.attempt = 0 /\ f.max_retries = 2
       /\ f.singles # <<>>

\* C8: an invocation on fewer than MIN_BATCH_SIZE_FOR_RECURSION units never
\* acquires for or makes a batch-level call and never splits; on no unit it
\* returns [] without any call; otherwise it hands every unit, in input
\* order, once, to a single-unit call.
SmallBatchSingleUnits ==
    \A f \in Frames :
       LET n == Len(f.batch)
       IN  n < 5 =>
              /\ f.pc \in {"entry", "single_acquire", "single_create", "return"}
              /\ f.resp.kind = "nil" /\ f.attempt = 0
              /\ f.singles = [k \in 1..Len(f.singles) |-> k]
              /\ n = 0 => f.pc \in {"entry", "return"} /\ f.singles = <<>>
              /\ f.pc = "return" =>
                    /\ Len(f.singles) = n
                    /\ Len(f.out) = n
                    /\ f.path = (IF n = 0 THEN "empty" ELSE "fallback")

\* three units were translated one by one
SmallBatchWitness ==
    /\ status = "done"
    /\ Len(input.batch) = 3
    /\ \A p \in 1..3 : result[p].text = <<SWord[UnitNo(input.batch[p])]>>

\* where every invocation that splits stands
SplitShape ==
    \A k \in 1..Len(stack) :
       LET f == stack[k]
           n == Len(f.batch)
       IN  /\ f.pc \in SplitPcs =>
                 /\ n >= 5 /\ f.attempt >= f.max_retries /\ ~Decoded(f)
           /\ (n >= 5 /\ f.attempt >= f.max_retries /\ f.pc # "entry") =>
                 (f.pc \in SplitPcs \/ (f.pc = "return" /\ f.path = "split"))
           /\ f.pc = "wait_first" =>
                 /\ k < Len(stack)
                 /\ stack[k + 1].batch = SubSeq(f.batch, 1, n \div 2)
           /\ f.pc \in {"call_second", "wait_second"} => Len(f.first_half) = n \div 2
           /\ f.pc = "wait_second" =>
                 /\ k < Len(stack)
                 /\ stack[k + 1].batch = SubSeq(f.batch, (n \div 2) + 1, n)

\* what a half's return and the second half's call do to the caller
SplitStep ==
    LET d == Len(stack)
    IN  /\ (d >= 2 /\ Top.pc = "return" /\ stack' # stack) =>
              /\ Len(stack') = d - 1
              /\ stack[d - 1].pc = "wait_first" =>
                    /\ stack'[d - 1].first_half = Top.out
                    /\ stack'[d - 1].pc = "call_second"
              /\ stack[d - 1].pc = "wait_second" =>
                    /\ stack'[d - 1].out = stack[d - 1].first_half \o Top.out
                    /\ stack'[d - 1].pc = "return"
        /\ (d >= 1 /\ Top.pc = "call_second" /\ stack' # stack) =>
              /\ Len(stack') = d + 1
              /\ stack'[d + 1] = NewFrame(SubSeq(Top.batch, (Len(Top.batch) \div 2) + 1,
                                                 Len(Top.batch)), 2)

\* C9: an invocation whose batch-level attempts all raised splits its batch
\* at len(batch)//2, resolves the first half completely before anything is
\* done for the second, starts the second half from the slice alone, and
\* returns the first half's result followed by the second's.
SplitInHalves == []SplitShape /\ [][SplitStep]_vars

\* a top-level call on an odd batch returned the two halves' results
SplitWitness ==
    /\ Len(stack) = 1 /\ Top.pc = "return" /\ Top.path = "split"
    /\ Len(Top.batch) = MaxBatch
    /\ Len(Top.first_half) = MaxBatch \div 2

RECURSIVE CeilLog2(_)
CeilLog2(n) == IF n <= 1 THEN 0 ELSE 1 + CeilLog2((n + 1) \div 2)

\* the recursion: halves shrink, nesting stays within ceil(log2(len(batch))),
\* and 8 units whose batch-level attempts all fail come from single-unit calls
RecursionBounded ==
    /\ \A k \in 1..(Len(stack) - 1) : Len(stack[k + 1].batch) < Len(stack[k].batch)
    /\ Len(stack) - 1 <= CeilLog2(Len(input.batch))
    /\ \A f \in Frames :
          (f.pc = "return" /\ Len(f.batch) = 8 /\ f.resp.kind # "text") =>
             /\ f.path = "split"
             /\ \A p \in 1..8 :
                   f.out[p].text \in {<<SWord[UnitNo(f.batch[p])]>>, Tagged(f.batch[p])}

\* the steps an invocation on n units with r batch attempts left can still
\* take, at most: from its entry (StepsOfCall), in its attempt loop
\* (StepsOfLoop), once it splits (StepsOfSplit)
RECURSIVE StepsOfCall(_, _)
StepsOfSplit(n) ==
    3 + StepsOfCall(n \div 2, 2) + StepsOfCall(n - (n \div 2), 2)

StepsOfRepair(n) == 2 * n + 1

StepsOfLoop(n, r) ==
    IF r <= 0 THEN StepsOfSplit(n)
    ELSE 2 * r + (IF StepsOfSplit(n) > StepsOfRepair(n) THEN StepsOfSplit(n)
                                                         ELSE StepsOfRepair(n))

StepsOfCall(n, r) ==
    IF n = 0 THEN 2
    ELSE IF n < 5 THEN 1 + StepsOfRepair(n)
    ELSE 1 + StepsOfLoop(n, r)

\* the steps a frame can still take itself or through calls it has yet to make
StepsLeft(f) ==
    LET n == Len(f.batch)
    IN  CASE f.pc = "entry" -> StepsOfCall(n, f.max_retries)
          [] f.pc = "batch_acquire" -> StepsOfLoop(n, f.max_retries - f.attempt)
          [] f.pc = "batch_create" -> StepsOfLoop(n, f.max_retries - f.attempt) - 1
          [] f.pc = "single_acquire" -> StepsOfRepair(n - f.i + 1)
          [] f.pc = "single_create" -> StepsOfRepair(n - f.i + 1) - 1
          [] f.pc = "call_first" -> StepsOfSplit(n)
          [] f.pc \in {"wait_first", "call_second"} -> 2 + StepsOfCall(n - (n \div 2), 2)
          [] f.pc \in {"wait_second", "return"} -> 1
          [] OTHER -> 0

RECURSIVE SumSteps(_)
SumSteps(frames) ==
    IF frames = <<>> THEN 0 ELSE StepsLeft(Head(frames)) + SumSteps(Tail(frames))

\* a bound on the steps the whole call tree can still take
Measure == SumSteps(stack)

\* while the call runs its innermost invocation stands at a statement that
\* has a step: it never waits for a call that is not on the stack
CanStep ==
    /\ stack # <<>>
    /\ Top.pc \in {"entry", "batch_acquire", "batch_create", "single_acquire",
                   "single_create", "call_first", "call_second", "return"}
    /\ Top.pc \in {"single_acquire", "single_create"} => Top.i \in 1..Len(Top.batch)

\* C10 (liveness reading): provided every acquire() and every LLM call
\* returns or raises, translate_batch returns.
EventuallyReturns == <>(status = "done")

\* C10: translate_batch terminates whatever the LLM does, provided every
\* acquire() and LLM call returns or raises: while it runs a step is
\* possible, and every step lowers a bound on the steps left; each recursive
\* half is smaller than its caller's batch, the nesting of splits is at most
\* ceil(log2(len(batch))), and 8 units whose batch-level calls always raise
\* are resolved by single-unit calls alone, without an exception.
Terminates ==
    /\ []RecursionBounded
    /\ [](status # "raised" /\ (status = "running" => CanStep))
    /\ [][Measure' < Measure]_vars

\* 8 units, every batch attempt failed: resolved by eight single-unit calls
TerminatesWitness ==
    /\ status = "done"
    /\ Len(input.batch) = 8 /\ input.max_retries = 2
    /\ \A p \in 1..8 : result[p].text = <<SWord[UnitNo(input.batch[p])]>>

\* the positions 1..k in order
UpTo(k) == [p \in 1..k |-> p]

\* C11: _fallback_to_single_items never raises; it hands every unit of its
\* batch to a single-unit call, in input order, whatever happened to the
\* units before; the outputs built so far stand one per unit handled, in
\* input order with the unit's own indices; a unit whose single-unit call
\* (or its acquire) raised carries "[Translation Error: <original text>]",
\* any other the answer of its own call; at the return there is one output
\* per input unit.
FallbackOnePerUnit ==
    /\ status # "raised"
    /\ \A f \in Frames :
          (f.via = "fallback" \/ f.path = "fallback") =>
             LET n == Len(f.batch)
                 done == IF f.pc = "return" THEN n ELSE f.i - 1
             IN  /\ f.pc \in {"single_acquire", "single_create", "return"}
                 /\ f.singles = UpTo(IF f.pc = "return" THEN n ELSE f.i)
                 /\ Len(f.out) = done
                 /\ \A p \in 1..done :
                       /\ f.out[p].original_index = f.batch[p].original_index
                       /\ f.out[p].sub_index = f.batch[p].sub_index
                       /\ f.out[p].text =
                             IF \E k \in 1..Len(f.failed) : f.failed[k] = p
                             THEN <<"[Translation Error: ">> \o f.batch[p].text \o <<"]">>
                             ELSE <<SWord[UnitNo(f.batch[p])]>>

\* the fallback of a recursive half went on after its first and third
\* units failed
FallbackWitness ==
    \E f \in Frames :
       /\ f.pc = "return" /\ f.path = "fallback"
       /\ Len(stack) > 1 /\ Len(f.batch) = 4
       /\ f.failed = <<1, 3>>
       /\ f.out[4].text = <<SWord[UnitNo(f.batch[4])]>>

CreatePcs == {"batch_create", "single_create"}

\* what every step does to the permit of the invocation that runs
PermitStep ==
    LET d == Len(stack)
    IN  /\ (stack' # stack /\ stack' # <<>> /\ stack'[Len(stack')].pc \in CreatePcs) =>
              /\ Len(stack') = d
              /\ Top.pc = (IF stack'[d].pc = "batch_create" THEN "batch_acquire"
                                                            ELSE "single_acquire")
              /\ stack'[d] = [Top EXCEPT !.pc = stack'[d].pc]
        /\ (stack # <<>> /\ Top.pc \in CreatePcs /\ stack' # stack) =>
              /\ Len(stack') = d
              /\ stack'[d].pc \notin CreatePcs

\* C12: an invocation stands at an LLM call only as the running invocation
\* and only by the step in which its own acquire() returned; the LLM call
\* takes it away from there, so that the next LLM call needs a new acquire():
\* no call without a permit, no permit for two calls, on the attempt loop,
\* the repair, the fallback and in the recursive halves alike.
PermitPerCall ==
    /\ [](\A k \in 1..(Len(stack) - 1) : stack[k].pc \notin CreatePcs)
    /\ [][PermitStep]_vars

\* a recursive half stands at the single-unit call of a repair
PermitWitness ==
    /\ Len(stack) > 1
    /\ Top.pc = "single_create" /\ Top.via = "repair"
    /\ Top.calls = "mixed"

\* C20: an invocation on at least MIN_BATCH_SIZE_FOR_RECURSION units none of
\* whose LLM calls, its own or those of the invocations it called, returned
\* a response (each raised, whatever the exception) returns all the same: it
\* has used up its attempts, split, and every unit it returns carries
\* "[Translation Error: <its original text>]"; no exception leaves the call.
AllRaiseAllTagged ==
    /\ status # "raised"
    /\ \A f \in Frames :
          (f.pc = "return" /\ f.calls # "mixed" /\ Len(f.batch) >= 5) =>
             /\ f.path = "split"
             /\ f.attempt = (IF f.max_retries > 0 THEN f.max_retries ELSE 0)
             /\ Len(f.out) = Len(f.batch)
             /\ \A p \in 1..Len(f.batch) :
                   f.out[p] = [f.batch[p] EXCEPT
                                 !.text = <<"[Translation Error: ">> \o @ \o <<"]">>,
                                 !.id = 0]

\* the largest batch, every LLM call of which raised, is about to be returned
AllRaiseWitness ==
    /\ Len(stack) = 1 /\ Top.pc = "return"
    /\ Len(Top.batch) = MaxBatch /\ Top.max_retries = MaxRetries
    /\ Top.calls = "raised"
    /\ Top.out[MaxBatch].text = <<"[Translation Error: ">> \o Top.batch[MaxBatch].text \o <<"]">>

(***************************************************************************)
(* The rate limiter (app/services/rate_limiter.py).  MaxCallers calls of   *)
(* acquire() share one key and one clock, counted in seconds.  A caller    *)
(* reads the clock (line 28), has the store increment the counter of       *)
(* key:window and refresh its time to live in one transaction (lines       *)
(* 31-34), and returns (line 38) or reads the clock again and sleeps       *)
(* (lines 41-46).  Any time may pass between two of these steps.  The      *)
(* calls differ in nothing but their state, so callers is the bag of their *)
(* states.  An entry of the store also tells how often its key was created *)
(* (epoch); a call also keeps the epoch it incremented, whether the clock  *)
(* was still in its window then (fresh), and when it returned.             *)
(***************************************************************************)
MaxCallers == 3
MaxTime == 3
MaxStart == 1

limit == 1
period == 2

\* time enough for calls made by MaxStart to be admitted one window after
\* the other
Horizon == ((MaxStart \div period) + MaxCallers) * period

Windows == 0..(Horizon \div period)

NoEntry == [count |-> 0, expires |-> 0, epoch |-> 0]

NewCaller ==
    [pc |-> "idle", current_window |-> 0, count |-> 0, wake |-> 0,
     epoch |-> 0, fresh |-> FALSE, returned_at |-> 0]

\* current_window = int(time.time() // self.period)
CurrentWindow(t) == t \div period

\* the key is there until the time to live set by its last EXPIRE has run out
Live(entry, t) == entry.count > 0 /\ t < entry.expires

ExpiryTooShort(t) == t + period - 1

\* p.expire(redis_key, self.period) at time t
Expiry(t) == t + period

\* the counter stops counting one past the limit
IncrementedSaturates(entry, t) ==
    IF entry.count > 0 /\ t < entry.expires
    THEN [entry EXCEPT !.count = IF @ > limit THEN @ ELSE @ + 1, !.expires = t + period]
    ELSE [count |-> 1, expires |-> t + period, epoch |-> entry.epoch + 1]

\* p.incr(redis_key); p.expire(redis_key, self.period), executed at time t
Incremented(entry, t) ==
    IF Live(entry, t)
    THEN [entry EXCEPT !.count = @ + 1, !.expires = Expiry(t)]
    ELSE [count |-> 1, expires |-> Expiry(t), epoch |-> entry.epoch + 1]

AdmitsOneMore(count) == count <= limit + 1

AdmitsBelowLimit(count) == count < limit

\* line 36
Admits(count) == count <= limit

\* wait_time = self.period: a whole period from now
WaitTimeWholePeriod(t) == period

\* wait_time = self.period - (time.time() % self.period)
WaitTime(t) == period - (t % period)

\* the calls in one of the states of S
HowMany(S) == BagCardinality([r \in S \cap BagToSet(callers) |-> callers[r]])

\* one call goes from state r to state r2
Becomes(r, r2) == callers' = (callers (-) SetToBag({r})) (+) SetToBag({r2})

\* acquire() is called
Acquire(r) ==
    /\ r.pc = "idle"
    /\ now <= MaxStart
    /\ Becomes(r, [r EXCEPT !.pc = "window"])
    /\ UNCHANGED <<orchestrator, now, store, task, sidecar>>

\* line 28, at the first iteration or once time.sleep has returned
ReadWindow(r) ==
    /\ r.pc = "window"
    /\ now >= r.wake
    /\ Becomes(r, [r EXCEPT !.pc = "execute", !.current_window = CurrentWindow(now)])
    /\ UNCHANGED <<orchestrator, now, store, task, sidecar>>

\* lines 29-34: the transaction reaches the store and its reply the caller
Execute(r) ==
    /\ r.pc = "execute"
    /\ LET w == r.current_window
           entry == Incremented(store[w], now)
       IN  /\ store' = [store EXCEPT ![w] = entry]
           /\ Becomes(r, [r EXCEPT !.pc = "check", !.count = entry.count,
                                   !.epoch = entry.epoch,
                                   !.fresh = (CurrentWindow(now) = w)])
    /\ UNCHANGED <<orchestrator, now, task, sidecar>>

\* line 34 raises (the store or the connection failed), the transaction
\* executed or not
ExecuteFails(r) ==
    /\ r.pc = "execute"
    /\ \E executed \in BOOLEAN :
          store' = IF executed
                   THEN [store EXCEPT ![r.current_window] = Incremented(@, now)]
                   ELSE store
    /\ Becomes(r, [r EXCEPT !.pc = "failed"])
    /\ UNCHANGED <<orchestrator, now, task, sidecar>>

\* lines 36-38
Permit(r) ==
    /\ r.pc = "check"
    /\ Admits(r.count)
    /\ Becomes(r, [r EXCEPT !.pc = "done", !.returned_at = now])
    /\ UNCHANGED <<orchestrator, now, store, task, sidecar>>

\* lines 39-46: the clock is read again and the thread sleeps
Wait(r) ==
    /\ r.pc = "check"
    /\ ~Admits(r.count)
    /\ Becomes(r, [r EXCEPT !.pc = "window", !.wake = now + WaitTime(now)])
    /\ UNCHANGED <<orchestrator, now, store, task, sidecar>>

\* a second passes
Tick ==
    /\ now < MaxTime
    /\ now' = now + 1
    /\ UNCHANGED <<orchestrator, store, callers, task, sidecar>>

LimiterInit ==
    /\ now = 0
    /\ store = [w \in Windows |-> NoEntry]
    /\ callers = [r \in {NewCaller} |-> MaxCallers]
    /\ input = <<>> /\ stack = <<>> /\ status = "idle" /\ result = <<>>
    /\ task = <<>>
    /\ sidecar = <<>>

LimiterNext ==
    \/ \E r \in BagToSet(callers) : Acquire(r)
    \/ \E r \in BagToSet(callers) : ReadWindow(r)
    \/ \E r \in BagToSet(callers) : Execute(r)
    \/ \E r \in BagToSet(callers) : ExecuteFails(r)
    \/ \E r \in BagToSet(callers) : Permit(r)
    \/ \E r \in BagToSet(callers) : Wait(r)
    \/ Tick

LimiterSpec == LimiterInit /\ [][LimiterNext]_vars

\* no call made has a step to take: each has returned or sleeps
Quiet ==
    \A r \in BagToSet(callers) :
       r.pc \in {"idle", "done"} \/ (r.pc = "window" /\ now < r.wake)

\* a second passes while every thread sleeps: the steps of acquire() take
\* no time to speak of
QuietTick ==
    /\ Quiet
    /\ now < Horizon
    /\ now' = now + 1
    /\ UNCHANGED <<orchestrator, store, callers, task, sidecar>>

PromptNext ==
    \/ \E r \in BagToSet(callers) : Acquire(r)
    \/ \E r \in BagToSet(callers) : ReadWindow(r)
    \/ \E r \in BagToSet(callers) : Execute(r)
    \/ \E r \in BagToSet(callers) : Permit(r)
    \/ \E r \in BagToSet(callers) : Wait(r)
    \/ QuietTick

\* the limiter with a store that answers and threads that run as soon as
\* they can: the calls are made by MaxStart, the clock runs to Horizon
LimiterPrompt == LimiterInit /\ [][PromptNext]_vars /\ WF_vars(PromptNext)

(***************************************************************************)
(* Properties of the rate limiter.                                         *)
(***************************************************************************)
CallStates == BagToSet(callers)

\* the calls that have returned from acquire()
Returned == {r \in CallStates : r.pc = "done"}

\* the calls whose last increment the store has answered and that have not
\* asked for another
Answered == {r \in CallStates : r.pc \in {"check", "done"} \/ (r.pc = "window" /\ r.wake > 0)}

\* C13 as stated: at most limit calls return on the counter of any one
\* window.
AdmittedPerWindow ==
    \A w \in Windows : HowMany({r \in Returned : r.current_window = w}) <= limit

\* C13 amended: acquire() returns only in an iteration whose post-increment
\* count is at most limit, and the calls that returned on one counter, from
\* its creation to its expiry, were given different counts: they are at most
\* limit.
AdmittedPerCounter ==
    \A r \in Returned :
       /\ r.count >= 1 /\ r.count <= limit
       /\ HowMany({q \in Returned : /\ q.current_window = r.current_window
                                    /\ q.epoch = r.epoch /\ q.count = r.count}) = 1
       /\ HowMany({q \in Returned : /\ q.current_window = r.current_window
                                    /\ q.epoch = r.epoch}) <= limit

\* a counter that had expired admitted a second call for its window, while
\* a call it rejected sleeps
AdmittedPerCounterWitness ==
    \E r, q \in Returned :
       /\ r.current_window = q.current_window /\ r.epoch = 1 /\ q.epoch = 2
       /\ \E z \in CallStates : z.pc = "window" /\ z.wake > 0 /\ z.count > limit

\* C14 as stated: the counter stored for a window never exceeds limit.
CounterWithinLimit == \A w \in Windows : store[w].count <= limit

\* C14 amended: the counter counts every iteration that reached it,
\* admitted or rejected: the calls answered by a counter still in the store
\* hold different values, none above the stored one, so that the stored
\* value is at least their number and goes beyond limit with the first
\* rejected iteration; the values up to limit are held by at most limit
\* calls.
CounterCountsIterations ==
    \A w \in Windows :
       LET holders == {r \in Answered : /\ r.current_window = w
                                        /\ r.epoch = store[w].epoch}
       IN  Live(store[w], now) =>
              /\ \A r \in holders :
                    /\ r.count >= 1 /\ r.count <= store[w].count
                    /\ HowMany({q \in holders : q.count = r.count}) = 1
              /\ HowMany(holders) <= store[w].count
              /\ HowMany({r \in holders : r.count <= limit}) <= limit

\* three calls reached the counter of window 0: it stands at 3, one call
\* returned and two were rejected
CounterWitness ==
    /\ Live(store[0], now) /\ store[0].count = MaxCallers
    /\ HowMany({r \in Returned : r.current_window = 0}) = 1
    /\ HowMany({r \in Answered : r.current_window = 0 /\ r.count > limit}) = MaxCallers - 1

\* C15 as stated: at most 2 x limit calls return within any time span of
\* length period.
ReturnsPerSpan ==
    \A t \in 0..MaxTime :
       HowMany({r \in Returned : r.returned_at >= t /\ r.returned_at < t + period})
          <= 2 * limit

\* the calls admitted by an increment that reached the store while the clock
\* was in the window they had computed
FreshAdmitted(W) ==
    {r \in CallStates : /\ r.pc \in {"check", "done"} /\ r.count <= limit
                        /\ r.fresh /\ r.current_window \in W}

\* C15 amended: among callers reading one clock, the calls admitted by an
\* increment that reached the store while the clock was still in the window
\* they had computed are at most limit for one window, and so at most
\* 2 x limit over any time span of length period, which meets two
\* consecutive windows at most.
FreshAdmissionsPerSpan ==
    \A w \in Windows :
       /\ HowMany(FreshAdmitted({w})) <= limit
       /\ HowMany(FreshAdmitted({w, w + 1})) <= 2 * limit

\* one call admitted in time in each of two consecutive windows, a third
\* admitted late
FreshAdmissionsWitness ==
    /\ HowMany(FreshAdmitted({0, 1})) = 2
    /\ HowMany(Returned) = 3
    /\ \E r \in Returned : ~r.fresh

\* where and when the calls have returned so far
OnePerWindow ==
    /\ \A w \in Windows : HowMany({r \in Returned : r.current_window = w}) <= limit
    /\ \A r \in Returned :
          /\ r.fresh
          /\ CurrentWindow(r.returned_at) = r.current_window
          /\ r.current_window <= (MaxStart \div period) + MaxCallers - 1
          /\ r.wake = 0 => r.returned_at <= MaxStart
          /\ r.wake > 0 =>
                /\ r.returned_at = r.current_window * period
                /\ \E q \in Returned : q.current_window = r.current_window - 1

\* every call that was made has returned, for good
AllReturned == \A r \in CallStates : r.pc \in {"idle", "done"}

MaxSubs == 3
MaxLines == 2
BatchSize == 2

LineWord ==
    << <<"a1", "a2", "a3">>, <<"b1", "b2", "b3">>, <<"c1", "c2", "c3">>,
       <<"d1", "d2", "d3">> >>

\* the text of the k-th subtitle of a file when it has n lines
SubText(k, n) == Join([i \in 1..n |-> <<LineWord[k][i]>>], "\n")

\* the indices a file may give its n subtitles: counted from 1, counted
\* down, or the first one's number again from some subtitle on
IndexChoices(n) ==
    { [k \in 1..n |-> k], [k \in 1..n |-> n + 1 - k] }
      \cup { [k \in 1..n |-> IF k < d THEN k ELSE 1] : d \in 2..n }

\* the files of up to MaxSubs subtitles of 0 to MaxLines lines
Documents ==
    UNION { { [k \in 1..n |-> [index |-> idx[k], text |-> SubText(k, lines[k])]] :
                idx \in IndexChoices(n), lines \in [1..n -> 0..MaxLines] } :
            n \in 0..MaxSubs }

\* lines 55-61: the units of one subtitle
UnitsOfSub(sub) ==
    LET lines == Split(sub.text, "\n")
    IN  [i \in 1..Len(lines) |->
           [original_index |-> sub.index, sub_index |-> i - 1, text |-> lines[i]]]

\* lines 53-61
RECURSIVE TranslationUnits(_)
TranslationUnits(subs) ==
    IF subs = <<>> THEN <<>>
    ELSE UnitsOfSub(Head(subs)) \o TranslationUnits(Tail(subs))

\* a chunking that leaves out the units after the last full batch
ChunksFullOnly(units, batch_size) ==
    [b \in 1..(Len(units) \div batch_size) |->
       SubSeq(units, (b - 1) * batch_size + 1, b * batch_size)]

\* line 64: translation_units[i:i + batch_size] for i in range(0, len, batch_size)
Chunks(units, batch_size) ==
    [b \in 1..((Len(units) + batch_size - 1) \div batch_size) |->
       SubSeq(units, (b - 1) * batch_size + 1,
              IF b * batch_size < Len(units) THEN b * batch_size ELSE Len(units))]

\* lines 43-66 (parse() has run)
BatchForTranslation(subs, batch_size) ==
    IF subs = <<>> THEN <<>> ELSE Chunks(TranslationUnits(subs), batch_size)

PyDict(unit) ==
    [kind |-> "dict", original_index |-> unit.original_index,
     sub_index |-> unit.sub_index, text |-> unit.text]

PyList(items) == [kind |-> "list", items |-> items]

\* the key of line 81 orders x before y
KeyBefore(x, y) ==
    \/ x.original_index < y.original_index
    \/ x.original_index = y.original_index /\ x.sub_index < y.sub_index

\* x put behind the elements of a sorted list that do not come after it
RECURSIVE Inserted(_, _)
Inserted(sorted, x) ==
    IF sorted = <<>> THEN <<x>>
    ELSE IF KeyBefore(x, Head(sorted)) THEN <<x>> \o sorted
    ELSE <<Head(sorted)>> \o Inserted(Tail(sorted), x)

\* line 81: list.sort is stable
RECURSIVE Sorted(_)
Sorted(units) ==
    IF units = <<>> THEN <<>>
    ELSE Inserted(Sorted(SubSeq(units, 1, Len(units) - 1)), units[Len(units)])

\* lines 84-87: the texts of the group of one original_index
RECURSIVE TextsOf(_, _)
TextsOf(units, original_index) ==
    IF units = <<>> THEN <<>>
    ELSE (IF Head(units).original_index = original_index THEN <<Head(units).text>>
          ELSE <<>>) \o TextsOf(Tail(units), original_index)

\* line 78: subs_dict = {sub.index: sub for sub in self.subs}
SubsDict(subs, index) ==
    CHOOSE k \in 1..Len(subs) :
       subs[k].index = index /\ \A j \in (k + 1)..Len(subs) : subs[j].index # index

\* lines 68-94: the subtitles afterwards, or the exception raised
Reconstruct(subs, translated_units) ==
    IF subs = <<>> THEN [raised |-> "ValueError", subs |-> subs]
    ELSE IF \E e \in 1..Len(translated_units) : translated_units[e].kind # "dict"
    THEN [raised |-> "TypeError", subs |-> subs]
    ELSE LET sorted == Sorted(translated_units)
         IN  [raised |-> "none",
              subs |-> [k \in 1..Len(subs) |->
                          LET lines == TextsOf(sorted, subs[k].index)
                          IN  IF SubsDict(subs, subs[k].index) = k /\ lines # <<>>
                              THEN [subs[k] EXCEPT !.text = Join(lines, "\n")]
                              ELSE subs[k]]]

\* what translate_batch returns for a batch: as many units, in order, each
\* with its indices and a translation or the placeholder as text
TranslatedText(text) == <<"tr:">> \o text

TranslateBatchOutcomes(batch) ==
    { [p \in 1..Len(batch) |-> [batch[p] EXCEPT !.text = TranslatedText(batch[p].text)]],
      [p \in 1..Len(batch) |-> [batch[p] EXCEPT !.text = Placeholder(batch[p].text)]] }

RECURSIVE Flat(_)
Flat(lists) == IF lists = <<>> THEN <<>> ELSE Head(lists) \o Flat(Tail(lists))

\* the orders in which a flat list is handed to reconstruct
Orders == {"same", "reversed", "rotated"}

Permuted(units, order) ==
    CASE order = "same" -> units
      [] order = "reversed" -> Reverse(units)
      [] OTHER -> IF units = <<>> THEN <<>> ELSE Tail(units) \o <<Head(units)>>

NewTask(subs, batch_size) ==
    [pc |-> "start", state |-> "PENDING", subs |-> subs, source |-> subs,
     batch_size |-> batch_size, batches |-> <<>>, i |-> 0,
     translated_batches |-> <<>>, progress |-> <<>>, calls |-> <<>>,
     handed |-> <<>>, raised |-> "none"]

(***************************************************************************)
(* batch_for_translation and reconstruct applied to the files of           *)
(* Documents: the units are made, translated, and handed to reconstruct as *)
(* one flat list in one of Orders.                                         *)
(***************************************************************************)
Batch ==
    /\ task.pc = "start"
    /\ task' = [task EXCEPT !.pc = "batched",
                            !.batches = BatchForTranslation(task.subs, task.batch_size)]
    /\ UNCHANGED <<orchestrator, limiter, sidecar>>

Translate ==
    /\ task.pc = "batched"
    /\ \E out \in [1..Len(task.batches) -> BOOLEAN] :
          task' = [task EXCEPT
                     !.pc = "translated",
                     !.translated_batches =
                        [b \in 1..Len(task.batches) |->
                           CHOOSE r \in TranslateBatchOutcomes(task.batches[b]) :
                              (r[1].text = TranslatedText(task.batches[b][1].text)) = out[b]]]
    /\ UNCHANGED <<orchestrator, limiter, sidecar>>

ReconstructFlat ==
    /\ task.pc = "translated"
    /\ \E order \in Orders :
          LET flat == Flat(task.translated_batches)
              handed == Permuted([e \in 1..Len(flat) |-> PyDict(flat[e])], order)
              r == Reconstruct(task.subs, handed)
          IN  task' = [task EXCEPT !.pc = "done", !.handed = handed,
                                   !.raised = r.raised, !.subs = r.subs]
    /\ UNCHANGED <<orchestrator, limiter, sidecar>>

PipelineInit ==
    /\ \E subs \in Documents, batch_size \in 1..BatchSize :
          task = NewTask(subs, batch_size)
    /\ now = 0 /\ store = <<>> /\ callers = <<>>
    /\ input = <<>> /\ stack = <<>> /\ status = "idle" /\ result = <<>>
    /\ sidecar = <<>>

PipelineNext ==
    \/ Batch
    \/ Translate
    \/ ReconstructFlat

PipelineSpec == PipelineInit /\ [][PipelineNext]_vars

\* the lines of the k-th subtitle of the file
SourceLines(k) == Split(task.source[k].text, "\n")

\* the units that come before those of the k-th subtitle
RECURSIVE UnitsBefore(_)
UnitsBefore(k) == IF k <= 1 THEN 0 ELSE UnitsBefore(k - 1) + Len(SourceLines(k - 1))

\* C19: batch_for_translation makes one unit per text line of every
\* subtitle, in order; reconstruct, handed the translated units as a flat
\* list in any order, leaves every subtitle with the texts of its own units,
\* one line each, in sub_index order, and with no other text.
NoUnitDropped ==
    LET units == Flat(task.batches)
        flat == Flat(task.translated_batches)
        n == Len(task.source)
    IN  /\ task.pc # "start" =>
              /\ Len(units) = UnitsBefore(n + 1)
              /\ \A k \in 1..n : \A l \in 1..Len(SourceLines(k)) :
                    units[UnitsBefore(k) + l].text = SourceLines(k)[l]
        /\ (task.pc = "done" /\ n > 0) =>
              /\ task.raised = "none"
              /\ \A k \in 1..n :
                    task.subs[k].text =
                       Join([l \in 1..Len(SourceLines(k)) |-> flat[UnitsBefore(k) + l].text],
                            "\n")

(***************************************************************************)
(* translate_srt_task of app/worker/tasks.py.  Progress is kept in         *)
(* hundredths, as the code rounds it to two decimals.                      *)
(***************************************************************************)
start_progress == 30
end_progress == 80

\* x / n rounded to the nearest integer; a tie may go either way, as it
\* depends on the float that stands for the quotient
RoundChoices(x, n) ==
    LET q == x \div n
        r == x % n
    IN  IF 2 * r < n THEN {q} ELSE IF 2 * r > n THEN {q + 1} ELSE {q, q + 1}

ProgressForgetsStart(i, num_batches) ==
    RoundChoices(start_progress * num_batches + i * end_progress, num_batches)

\* lines 73-76: round(start_progress + (i / num_batches) * (end - start), 2)
ProgressAt(i, num_batches) ==
    RoundChoices(start_progress * num_batches + i * (end_progress - start_progress),
                 num_batches)

Reported(p) == [task EXCEPT !.state = "PROCESSING", !.progress = Append(@, p)]

\* lines 95-98
Failed(t, exc_type) == [t EXCEPT !.pc = "done", !.state = "FAILURE", !.raised = exc_type]

\* lines 36-51
Initialize ==
    /\ task.pc = "pending"
    /\ task' = [Reported(5) EXCEPT !.pc = "parse"]
    /\ UNCHANGED <<orchestrator, limiter, sidecar>>

\* lines 54-66; write of srt_processor.py (lines 100-101) raises when there
\* are no subtitles
ParseAndBatch ==
    /\ task.pc = "parse"
    /\ LET batches == BatchForTranslation(task.subs, task.batch_size)
           t == [Reported(10) EXCEPT !.batches = batches]
       IN  task' = IF batches = <<>>
                   THEN IF t.subs = <<>>
                        THEN Failed(t, "ValueError")
                        ELSE [t EXCEPT !.pc = "done", !.state = "SUCCESS"]
                   ELSE [t EXCEPT !.pc = "loop", !.i = 0,
                                  !.progress = Append(@, start_progress)]
    /\ UNCHANGED <<orchestrator, limiter, sidecar>>

\* line 55 for a file that cannot be read or parsed
ParseFails ==
    /\ task.pc = "parse"
    /\ task' = Failed(Reported(10), "Exception")
    /\ UNCHANGED <<orchestrator, limiter, sidecar>>

\* lines 72-79, up to the call
CallTranslateBatch ==
    /\ task.pc = "loop"
    /\ task.i < Len(task.batches)
    /\ \E p \in ProgressAt(task.i, Len(task.batches)) :
          task' = [Reported(p) EXCEPT !.pc = "call", !.calls = Append(@, task.i + 1)]
    /\ UNCHANGED <<orchestrator, limiter, sidecar>>

\* lines 79-80: the call returns and its result is appended as one element
TranslateBatchReturns ==
    /\ task.pc = "call"
    /\ \E translated_batch \in TranslateBatchOutcomes(task.batches[task.i + 1]) :
          task' = [task EXCEPT !.pc = "loop", !.i = @ + 1,
                               !.translated_batches = Append(@, translated_batch)]
    /\ UNCHANGED <<orchestrator, limiter, sidecar>>

\* lines 83-93
ReconstructAndSave ==
    /\ task.pc = "loop"
    /\ task.i = Len(task.batches)
    /\ LET handed == [b \in 1..Len(task.translated_batches) |->
                         PyList(task.translated_batches[b])]
           t == [Reported(end_progress) EXCEPT !.handed = handed]
           r == Reconstruct(task.subs, handed)
       IN  task' = IF r.raised # "none"
                   THEN Failed(t, r.raised)
                   ELSE [t EXCEPT !.pc = "done", !.state = "SUCCESS", !.subs = r.subs,
                                  !.progress = @ \o <<90, 100>>]
    /\ UNCHANGED <<orchestrator, limiter, sidecar>>

DriverInit ==
    /\ \E subs \in Documents : task = [NewTask(subs, BatchSize) EXCEPT !.pc = "pending"]
    /\ now = 0 /\ store = <<>> /\ callers = <<>>
    /\ input = <<>> /\ stack = <<>> /\ status = "idle" /\ result = <<>>
    /\ sidecar = <<>>

DriverNext ==
    \/ Initialize
    \/ ParseAndBatch
    \/ ParseFails
    \/ CallTranslateBatch
    \/ TranslateBatchReturns
    \/ ReconstructAndSave

DriverSpec == DriverInit /\ [][DriverNext]_vars

\* C17: what the driver hands to reconstruct is one list of translated
\* units, the results of the batches one after the other, and it has as
\* many units as the file had.
HandsFlatConcatenation ==
    (task.pc = "done" /\ task.handed # <<>>) =>
        LET flat == Flat(task.translated_batches)
        IN  /\ task.handed = [e \in 1..Len(flat) |-> PyDict(flat[e])]
            /\ Len(task.handed) = Len(TranslationUnits(task.source))

\* C18: translate_batch is called for batch 1, 2, ... in this order, the
\* next one only after the previous one returned, every batch once when
\* the loop is over; the progress values never decrease, stay within 0 and
\* 1, and 1 is reported only by a task that succeeded.
OncePerBatchInOrder ==
    LET n == Len(task.progress)
    IN  /\ task.calls = UpTo(Len(task.calls))
        /\ Len(task.calls) = (IF task.pc = "call" THEN task.i + 1 ELSE task.i)
        /\ Len(task.translated_batches) = task.i
        /\ (task.pc = "done" /\ task.handed # <<>>) => task.calls = UpTo(Len(task.batches))
        /\ \A k \in 1..n : task.progress[k] \in 0..100
        /\ \A k \in 1..(n - 1) : task.progress[k] <= task.progress[k + 1]
        /\ \A k \in 1..n : task.progress[k] = 100 => task.state = "SUCCESS"

\* three batches were translated one after the other
OncePerBatchWitness ==
    /\ task.pc = "done"
    /\ task.calls = <<1, 2, 3>>
    /\ Len(task.progress) = 7
    /\ task.progress[5] = 47
    /\ task.progress[7] = end_progress

(***************************************************************************)
(* _get_numbered_text_map on its own, line by line, on the response texts  *)
(* of up to MaxReplyLines lines.                                           *)
(***************************************************************************)
MaxReplyLines == 3

\* lines with and without the number-dot prefix: a number declared twice,
\* blanks around, no blank after the dot, a leading zero, a blank before the
\* dot, prose, an empty line, more digits than int() converts
ReplyLineShapes ==
    { <<"1", ".", " ", "a">>, <<"2", ".", " ", "b">>, <<"1", ".", " ", "c">>,
      <<" ", "2", ".", "d", " ">>, <<"0", "2", ".", " ", "e">>,
      <<"3", " ", ".", " ", "f">>, <<"Sure", ":">>, <<>>, OverlongLine }

ResponseTexts ==
    UNION { { Join(lines, "\n") : lines \in [1..n -> ReplyLineShapes] } : n \in 0..MaxReplyLines }

\* lines 51-52
DecoderFrame(text) == [pc |-> "decode", lines |-> Split(Strip(text), "\n"), result_map |-> EmptyMap]

\* lines 53-58: one turn of the loop
DecodeLine ==
    /\ status = "running" /\ stack # <<>> /\ Top.pc = "decode"
    /\ Top.lines # <<>>
    /\ IF LineRaises(Head(Top.lines))
       THEN /\ status' = "raised"
            /\ stack' = <<>>
       ELSE /\ stack' = <<[Top EXCEPT !.lines = Tail(@),
                                      !.result_map = MapPut(@, Head(Top.lines))]>>
            /\ UNCHANGED status
    /\ UNCHANGED <<input, result, limiter, task, sidecar>>

\* line 59
DecodeReturn ==
    /\ status = "running" /\ stack # <<>> /\ Top.pc = "decode"
    /\ Top.lines = <<>>
    /\ status' = "done"
    /\ result' = Top.result_map
    /\ stack' = <<>>
    /\ UNCHANGED <<input, limiter, task, sidecar>>

DecoderInit ==
    /\ \E text \in ResponseTexts :
          /\ input = text
          /\ stack = <<DecoderFrame(text)>>
    /\ status = "running"
    /\ result = <<>>
    /\ now = 0 /\ store = <<>> /\ callers = <<>>
    /\ task = <<>>
    /\ sidecar = <<>>

DecoderNext ==
    \/ DecodeLine
    \/ DecodeReturn

DecoderSpec == DecoderInit /\ [][DecoderNext]_vars

\* the numbers declared on the matching lines of a text
Declared(text) ==
    { StrToInt(ReGroup1(MatchingLines(text)[j])) : j \in 1..Len(MatchingLines(text)) }

\* the text of the last matching line declaring k
LastDeclared(text, k) ==
    LET ml == MatchingLines(text)
        j == CHOOSE j \in 1..Len(ml) :
                /\ StrToInt(ReGroup1(ml[j])) = k
                /\ \A h \in (j + 1)..Len(ml) : StrToInt(ReGroup1(ml[h])) # k
    IN  Strip(ReGroup2(ml[j]))

\* C21: the decoder is never left by an exception; it returns a map whose
\* keys are the numbers declared on the lines that match the number-dot
\* pattern, however few, many or ordered, each with the text of the last
\* line that declares it.
DecoderLenient ==
    /\ status # "raised"
    /\ status = "done" =>
          /\ DOMAIN result = Declared(input)
          /\ \A k \in DOMAIN result : result[k] = LastDeclared(input, k)
          /\ result = GetNumberedTextMap(input)

(***************************************************************************)
(* Further properties of translate_batch.                                  *)
(***************************************************************************)
\* what the caller's dict at position p of the batch holds, given the
\* dicts the invocation has written so far
DictNow(f, p) ==
    IF \E q \in 1..Len(f.out) : f.out[q].id = f.batch[p].id
    THEN f.out[CHOOSE q \in 1..Len(f.out) :
                  /\ f.out[q].id = f.batch[p].id
                  /\ \A h \in (q + 1)..Len(f.out) : f.out[h].id # f.batch[p].id]
    ELSE f.batch[p]

\* C22: the list an invocation was given and every unit of it stay as they
\* were, on every path; the units it returns are other dicts than the
\* caller's, each equal to the unit at its position except for the text.
ReadOnlyInput ==
    /\ stack # <<>> => stack[1].batch = input.batch
    /\ \A f \in Frames :
          /\ \A p \in 1..Len(f.batch) : DictNow(f, p) = f.batch[p] /\ f.batch[p].id # 0
          /\ f.pc = "return" =>
                /\ Len(f.out) = Len(f.batch)
                /\ \A p \in 1..Len(f.batch) :
                      /\ f.out[p].id = 0
                      /\ [f.out[p] EXCEPT !.text = f.batch[p].text, !.id = f.batch[p].id]
                            = f.batch[p]
    /\ status = "done" =>
          \A p \in 1..Len(input.batch) :
             /\ result[p].id = 0
             /\ [result[p] EXCEPT !.text = input.batch[p].text, !.id = input.batch[p].id]
                   = input.batch[p]

\* a call returned units from a batch reply, from a single-unit call and
\* with the placeholder, its own units as they were
ReadOnlyWitness ==
    /\ status = "done"
    /\ Len(input.batch) = MaxBatch
    /\ input.batch = Units(MaxBatch)
    /\ \E p, q, h \in 1..MaxBatch :
          /\ result[p].text = <<BWord[p]>>
          /\ result[q].text = <<SWord[q]>>
          /\ result[h].text = Tagged(input.batch[h])

BatchPcs == {"batch_acquire", "batch_create"}

\* where the attempt counter of every invocation stands
AttemptShape ==
    \A f \in Frames :
       LET n == Len(f.batch)
       IN  /\ f.attempt >= 0
           /\ f.attempt <= (IF f.max_retries > 0 THEN f.max_retries ELSE 0)
           /\ f.pc \in BatchPcs => n >= MIN_BATCH_SIZE_FOR_RECURSION /\ f.attempt < f.max_retries
           /\ f.resp.kind # "nil" => f.max_retries > 0
           /\ f.pc \in SplitPcs => f.attempt >= f.max_retries
           /\ (n >= MIN_BATCH_SIZE_FOR_RECURSION /\ f.attempt >= f.max_retries /\ f.pc # "entry")
                 => (f.pc \in SplitPcs \/ (f.pc = "return" /\ f.path = "split"))

\* what a step does to the attempt counters
AttemptStep ==
    LET d == Len(stack)
    IN  /\ \A k \in 1..(d - 1) : k <= Len(stack') => stack'[k].attempt = stack[k].attempt
        /\ (d >= 1 /\ Len(stack') = d) =>
              LET g == stack'[d]
              IN  /\ g.attempt # Top.attempt =>
                        /\ g.attempt = Top.attempt + 1
                        /\ Top.pc \in BatchPcs
                        /\ ~Decoded(g)
                        /\ g.pc \in {"batch_acquire", "call_first"}
                  /\ (Top.pc \in BatchPcs /\ g.attempt = Top.attempt) =>
                        \/ Top.pc = "batch_acquire" /\ g.pc = "batch_create"
                        \/ /\ Top.pc = "batch_create" /\ Decoded(g)
                           /\ g.pc \in {"single_acquire", "return"}
                  /\ (Top.pc = "entry" /\ g.pc = "call_first") =>
                        Top.max_retries <= 0 /\ g.resp.kind = "nil" /\ g.calls = "none"

\* C28: an invocation on MIN_BATCH_SIZE_FOR_RECURSION units or more makes at
\* most max_retries batch-level attempts; its attempt counter goes up by one
\* when an attempt raises and never otherwise; it splits exactly when the
\* counter has reached max_retries, at once and without any batch-level
\* call when max_retries <= 0.
AttemptBudget == []AttemptShape /\ [][AttemptStep]_vars

\* an invocation used its two attempts, which both raised, and is about to
\* split
AttemptWitness ==
    /\ Len(stack) = 1
    /\ Top.pc = "call_first" /\ Top.max_retries = 2 /\ Top.attempt = 2
    /\ Top.calls = "raised"

\* C29: when the map decoded from a batch response has len(batch) entries
\* and lacks some position of the batch, another number being declared
\* instead, the invocation returns on the success path: a position the map
\* holds with the map's text, a position it lacks with the sentinel
\* "[Translation Missing]", and no unit handed to a single-unit call.
MissingOnSuccessPath ==
    \A f \in Frames :
       LET m == GetNumberedTextMap(Strip(f.resp.content))
           n == Len(f.batch)
       IN  (/\ Decoded(f)
            /\ Cardinality(DOMAIN m) = n
            /\ \E p \in 1..n : p \notin DOMAIN m) =>
              /\ f.pc = "return" /\ f.path = "success"
              /\ f.singles = <<>>
              /\ Len(f.out) = n
              /\ \A p \in 1..n :
                    f.out[p].text = (IF p \in DOMAIN m THEN m[p]
                                                       ELSE <<"[Translation Missing]">>)

\* a reply that declares 1, 3, 4, ..., n+1 was taken as a success, the
\* second unit marked missing
MissingOnSuccessWitness ==
    \E f \in Frames :
       LET n == Len(f.batch)
       IN  /\ f.pc = "return" /\ f.path = "success"
           /\ n >= MIN_BATCH_SIZE_FOR_RECURSION
           /\ DOMAIN f.translated_map = ((1..n) \ {2}) \cup {n + 1}
           /\ f.out[2].text = <<"[Translation Missing]">>
           /\ f.out[1].text = <<BWord[UnitNo(f.batch[1])]>>
           /\ f.singles = <<>>

(***************************************************************************)
(* Further properties of the rate limiter.                                 *)
(***************************************************************************)
\* a step in which the call in state r is rejected and goes to sleep
Rejected(r, r2) == r.pc = "check" /\ r2.pc = "window" /\ r # r2 /\ Becomes(r, r2)

\* a step in which the call in state r, back from its sleep, reads the clock
Resumed(r, r2) ==
    r.pc = "window" /\ r.wake > 0 /\ r2.pc = "execute" /\ r # r2 /\ Becomes(r, r2)

NextWindowStep ==
    \A r \in BagToSet(callers), r2 \in BagToSet(callers') :
       /\ Rejected(r, r2) => r2.wake = (r.current_window + 1) * period
       /\ Resumed(r, r2) => r2.current_window = r.current_window + 1

\* C30 as stated: a call rejected in window w sleeps until the start of
\* window w+1 and makes its next increment on the counter of window w+1.
NextWindowExactly == [][NextWindowStep]_vars

LaterWindowStep ==
    \A r \in BagToSet(callers), r2 \in BagToSet(callers') :
       /\ Rejected(r, r2) =>
             /\ r2.wake = (CurrentWindow(now) + 1) * period
             /\ r2.wake >= (r.current_window + 1) * period
             /\ CurrentWindow(now) = r.current_window =>
                   r2.wake = (r.current_window + 1) * period
       /\ Resumed(r, r2) =>
             /\ now >= r.wake
             /\ r2.current_window > r.current_window
             /\ r2.current_window >= CurrentWindow(r.wake)
             /\ (now < r.wake + period /\ r.wake = (r.current_window + 1) * period) =>
                   r2.current_window = r.current_window + 1

\* C30 amended: a call rejected in window w sleeps until the start of the
\* window after the one the clock is in when it computes the wait, and
\* makes its next increment on the counter of the window the clock is in
\* when it wakes and reads it: always a window later than w, never w again,
\* and w+1 when the clock was still in w at the wait computation and the
\* call reads it within a period of waking.
NextWindowOrLater == [][LaterWindowStep]_vars

\* a call was rejected, slept, and incremented the counter of the window
\* it woke in
NextWindowWitness ==
    \E r \in CallStates :
       /\ r.pc \in {"check", "done"}
       /\ r.wake > 0
       /\ r.current_window = CurrentWindow(r.wake)
       /\ r.count = 1

\* ---------------------------------------------------------------------
\* The sidecar process (python-engines/common).  `sidecar` holds the one
\* object a specification below runs; the field `of` names its class.
\* ---------------------------------------------------------------------

\* SidecarCommunicator._handle_command (communication.py)

MaxTimeout == 2

MaxDuration == 3

CommandIds == {"c1", "c2"}

\* SidecarCommand.timeout: Optional[int], not validated
Timeouts ==
    {[given |-> FALSE, seconds |-> 0]}
        \cup {[given |-> TRUE, seconds |-> t] : t \in 0..MaxTimeout}

\* the truth value `if command.timeout:` tests: None and 0 are false
Truthy(timeout) == timeout.given /\ timeout.seconds # 0

\* what a command handler can raise: two exceptions, one of them the
\* built-in TimeoutError (asyncio.TimeoutError is the same class), and one
\* BaseException that is not an Exception
Raisables ==
    { [type |-> "ValueError",   message |-> "Test error",     is_exception |-> TRUE],
      [type |-> "TimeoutError", message |-> "disk timed out", is_exception |-> TRUE],
      [type |-> "SystemExit",   message |-> "exit",           is_exception |-> FALSE] }

\* what asyncio.wait_for raises when the timeout expires
WaitForTimeout == [type |-> "TimeoutError", message |-> "", is_exception |-> TRUE]

\* what SidecarResponse raises on data that is neither a dict nor None
ValidationError ==
    [type |-> "ValidationError", message |-> "Input should be a valid dictionary",
     is_exception |-> TRUE]

\* a command handler, by what it does when it is left to run: it takes
\* `duration` seconds and then returns a value or raises
CommandHandlers ==
    [duration : 0..MaxDuration, ends : {"return"}, value : {"dict", "None", "list"},
     exc : {WaitForTimeout}]
        \cup [duration : 0..MaxDuration, ends : {"raise"}, value : {"None"},
              exc : Raisables]

Pending == [ends |-> "pending", value |-> "None", exc |-> WaitForTimeout, timed_out |-> FALSE]

NewCommunicator(id, timeout, handler) ==
    [of |-> "SidecarCommunicator", pc |-> "await_handler",
     command |-> [id |-> id, timeout |-> timeout], command_handler |-> handler,
     awaited |-> Pending,   \* how the await of lines 116-122 ended
     sent |-> <<>>,         \* the responses handed to _send_json
     written |-> <<>>]      \* the responses written to stdout

SuccessResponse(command_id, data) ==
    [id |-> command_id, status |-> "success", data |-> data,
     error |-> "None", error_type |-> "None"]

ErrorResponse(command_id, error, error_type) ==
    [id |-> command_id, status |-> "error", data |-> "None",
     error |-> error, error_type |-> error_type]

\* _send_json: serialises and writes; a failure of either is logged and
\* swallowed, so the response may not reach stdout
SendJson(c, response, ok) ==
    [c EXCEPT !.sent = Append(@, response),
              !.written = IF ok THEN Append(@, response) ELSE @]

\* lines 116-122: the handler is awaited, under asyncio.wait_for when
\* command.timeout is true.  A handler that needs longer than the timeout
\* is cancelled and wait_for raises; one that needs exactly the timeout
\* races with it.
AwaitHandler ==
    /\ sidecar.of = "SidecarCommunicator"
    /\ sidecar.pc = "await_handler"
    /\ LET c == sidecar
           h == c.command_handler
           t == c.command.timeout
       IN \E timed_out \in BOOLEAN :
            /\ timed_out => Truthy(t) /\ h.duration >= t.seconds
            /\ ~timed_out => ~Truthy(t) \/ h.duration <= t.seconds
            /\ sidecar' =
                 [c EXCEPT !.pc = "awaited",
                           !.awaited =
                              IF timed_out
                              THEN [ends |-> "raise", value |-> "None",
                                    exc |-> WaitForTimeout, timed_out |-> TRUE]
                              ELSE [ends |-> h.ends, value |-> h.value,
                                    exc |-> h.exc, timed_out |-> FALSE]]
    /\ UNCHANGED <<orchestrator, limiter, task>>

\* lines 125-129, _send_response: the SidecarResponse is built and sent
SendSuccess ==
    /\ sidecar.of = "SidecarCommunicator"
    /\ sidecar.pc = "awaited"
    /\ sidecar.awaited.ends = "return"
    /\ sidecar.awaited.value \in {"dict", "None"}
    /\ \E ok \in BOOLEAN :
          sidecar' = [SendJson(sidecar,
                               SuccessResponse(sidecar.command.id, sidecar.awaited.value),
                               ok) EXCEPT !.pc = "returned"]
    /\ UNCHANGED <<orchestrator, limiter, task>>

\* the exception the except clauses of lines 135-148 see: the one the
\* await raised, or the one SidecarResponse raised in _send_response
Caught(c) ==
    IF c.awaited.ends = "return" THEN ValidationError ELSE c.awaited.exc

Raising(c) ==
    \/ c.awaited.ends = "raise"
    \/ c.awaited.ends = "return" /\ c.awaited.value = "list"

\* lines 135-141: except asyncio.TimeoutError
SendTimeout ==
    /\ sidecar.of = "SidecarCommunicator"
    /\ sidecar.pc = "awaited"
    /\ Raising(sidecar)
    /\ Caught(sidecar).type = "TimeoutError"
    /\ \E ok \in BOOLEAN :
          sidecar' = [SendJson(sidecar,
                               ErrorResponse(sidecar.command.id,
                                             "Command execution timed out",
                                             "TimeoutError"),
                               ok) EXCEPT !.pc = "returned"]
    /\ UNCHANGED <<orchestrator, limiter, task>>

\* lines 142-148: except Exception as e
SendError ==
    /\ sidecar.of = "SidecarCommunicator"
    /\ sidecar.pc = "awaited"
    /\ Raising(sidecar)
    /\ Caught(sidecar).type # "TimeoutError"
    /\ Caught(sidecar).is_exception
    /\ \E ok \in BOOLEAN :
          sidecar' = [SendJson(sidecar,
                               ErrorResponse(sidecar.command.id,
                                             Caught(sidecar).message,
                                             Caught(sidecar).type),
                               ok) EXCEPT !.pc = "returned"]
    /\ UNCHANGED <<orchestrator, limiter, task>>

\* no except clause matches a BaseException that is not an Exception:
\* _handle_command is left by it
Propagate ==
    /\ sidecar.of = "SidecarCommunicator"
    /\ sidecar.pc = "awaited"
    /\ Raising(sidecar)
    /\ Caught(sidecar).type # "TimeoutError"
    /\ ~Caught(sidecar).is_exception
    /\ sidecar' = [sidecar EXCEPT !.pc = "raised"]
    /\ UNCHANGED <<orchestrator, limiter, task>>

CommunicatorInit ==
    /\ \E id \in CommandIds, timeout \in Timeouts, handler \in CommandHandlers :
          sidecar = NewCommunicator(id, timeout, handler)
    /\ now = 0 /\ store = <<>> /\ callers = <<>>
    /\ input = <<>> /\ stack = <<>> /\ status = "idle" /\ result = <<>>
    /\ task = <<>>

CommunicatorNext ==
    \/ AwaitHandler
    \/ SendSuccess
    \/ SendTimeout
    \/ SendError
    \/ Propagate

CommunicatorSpec == CommunicatorInit /\ [][CommunicatorNext]_vars

\* the handler was cancelled by the timeout of the command
TimedOut(c) == c.awaited.timed_out

\* C23: _handle_command sends exactly one response for a command, with the
\* command's id, and never raises: a success response when the handler
\* returns, an error response "Command execution timed out" of type
\* TimeoutError when the handler exceeds the command's timeout, and
\* otherwise an error response with the message and the type name of the
\* exception the handler raised.
OneResponsePerCommand ==
    sidecar.pc \in {"returned", "raised"} =>
       /\ sidecar.pc = "returned"
       /\ Len(sidecar.sent) = 1
       /\ sidecar.sent[1].id = sidecar.command.id
       /\ sidecar.awaited.ends = "return" => sidecar.sent[1].status = "success"
       /\ TimedOut(sidecar) =>
             sidecar.sent[1] = ErrorResponse(sidecar.command.id,
                                             "Command execution timed out",
                                             "TimeoutError")
       /\ (sidecar.awaited.ends = "raise" /\ ~TimedOut(sidecar)) =>
             sidecar.sent[1] = ErrorResponse(sidecar.command.id,
                                             sidecar.awaited.exc.message,
                                             sidecar.awaited.exc.type)

\* ---------------------------------------------------------------------
\* BaseSidecarEngine.start / stop (base_engine.py)
\* ---------------------------------------------------------------------

MaxCalls == 3

\* what the engine-specific coroutines _start_engine and _stop_engine can
\* raise: an Exception, or the cancellation of the awaiting task (a
\* BaseException that is not an Exception)
EngineRaisables ==
    { [type |-> "RuntimeError",   message |-> "Model load failed", is_exception |-> TRUE],
      [type |-> "CancelledError", message |-> "",                  is_exception |-> FALSE] }

\* the awaited coroutine returned
NoException == [type |-> "None", message |-> "", is_exception |-> FALSE]

\* BaseSidecarEngine.__init__: status "initializing"; `calls` are the
\* start() and stop() coroutines called so far
NewEngine ==
    [of |-> "BaseSidecarEngine", status |-> "initializing", calls |-> <<>>]

NewEngineCall(op) ==
    [op |-> op, pc |-> "awaiting", exc |-> NoException]

\* a start() that reports "running" whatever _start_engine did
StatusAfterStartAlwaysRunning(engine_status, exc) == "running"

\* start(), lines 180-188: the status after `await self._start_engine()`
\* returned (exc = NoException) or raised exc
StatusAfterStart(engine_status, exc) ==
    IF exc = NoException THEN "running"
    ELSE IF exc.is_exception THEN "failed"
    ELSE engine_status

\* stop(), lines 194-201, after `await self._stop_engine()`
StatusAfterStop(engine_status, exc) ==
    IF exc = NoException THEN "stopped" ELSE engine_status

\* start() or stop() is called and runs to its await
CallEngine ==
    /\ sidecar.of = "BaseSidecarEngine"
    /\ Len(sidecar.calls) < MaxCalls
    /\ \E op \in {"start", "stop"} :
          sidecar' = [sidecar EXCEPT !.calls = Append(@, NewEngineCall(op))]
    /\ UNCHANGED <<orchestrator, limiter, task>>

\* the awaited coroutine of call i is over (it returned, or raised exc)
\* and the call runs to its end
FinishEngineCall(i, exc) ==
    LET call == sidecar.calls[i]
    IN /\ call.pc = "awaiting"
       /\ sidecar' =
            [sidecar EXCEPT
               !.status = IF call.op = "start"
                          THEN StatusAfterStart(sidecar.status, exc)
                          ELSE StatusAfterStop(sidecar.status, exc),
               !.calls[i] = [call EXCEPT !.pc = IF exc = NoException THEN "returned"
                                                ELSE "raised",
                                         !.exc = exc]]
       /\ UNCHANGED <<orchestrator, limiter, task>>

StartEngineReturns ==
    /\ sidecar.of = "BaseSidecarEngine"
    /\ \E i \in DOMAIN sidecar.calls :
          sidecar.calls[i].op = "start" /\ FinishEngineCall(i, NoException)

StartEngineRaises ==
    /\ sidecar.of = "BaseSidecarEngine"
    /\ \E i \in DOMAIN sidecar.calls, exc \in EngineRaisables :
          sidecar.calls[i].op = "start" /\ FinishEngineCall(i, exc)

StopEngineReturns ==
    /\ sidecar.of = "BaseSidecarEngine"
    /\ \E i \in DOMAIN sidecar.calls :
          sidecar.calls[i].op = "stop" /\ FinishEngineCall(i, NoException)

StopEngineRaises ==
    /\ sidecar.of = "BaseSidecarEngine"
    /\ \E i \in DOMAIN sidecar.calls, exc \in EngineRaisables :
          sidecar.calls[i].op = "stop" /\ FinishEngineCall(i, exc)

EngineInit ==
    /\ sidecar = NewEngine
    /\ now = 0 /\ store = <<>> /\ callers = <<>>
    /\ input = <<>> /\ stack = <<>> /\ status = "idle" /\ result = <<>>
    /\ task = <<>>

EngineNext ==
    \/ CallEngine
    \/ StartEngineReturns
    \/ StartEngineRaises
    \/ StopEngineReturns
    \/ StopEngineRaises

EngineSpec == EngineInit /\ [][EngineNext]_vars

\* call i of the engine ends in this step
Ends(i) ==
    /\ i \in DOMAIN sidecar.calls
    /\ sidecar.calls[i].pc = "awaiting"
    /\ sidecar'.calls[i].pc # "awaiting"

\* no call has ended yet
Untouched == \A i \in DOMAIN sidecar.calls : sidecar.calls[i].pc = "awaiting"

StatusMachineStep ==
    \A i \in 1..MaxCalls :
       Ends(i) =>
          LET op == sidecar.calls[i].op
              raised == sidecar'.calls[i].pc = "raised"
          IN /\ (op = "start" /\ ~raised) => sidecar'.status = "running"
             /\ (op = "start" /\ raised) => sidecar'.status = "failed"
             /\ (op = "stop" /\ ~raised) => sidecar'.status = "stopped"
             /\ (op = "stop" /\ raised) => sidecar'.status = sidecar.status

\* C24 as stated: a new engine has status "initializing"; start() sets
\* "running" when _start_engine succeeds and "failed", re-raising, when it
\* raises; stop() sets "stopped" when _stop_engine succeeds and leaves the
\* status unchanged, re-raising, when it raises; a stopped engine that is
\* started again returns to "running".
StatusMachine ==
    /\ [](Untouched => sidecar.status = "initializing")
    /\ [][StatusMachineStep]_vars

StatusMachineStepOnException ==
    \A i \in 1..MaxCalls :
       Ends(i) =>
          LET op == sidecar.calls[i].op
              raised == sidecar'.calls[i].pc = "raised"
              exc == sidecar'.calls[i].exc
          IN /\ (op = "start" /\ ~raised) => sidecar'.status = "running"
             /\ (op = "start" /\ raised /\ exc.is_exception) =>
                   sidecar'.status = "failed"
             /\ (op = "start" /\ raised /\ ~exc.is_exception) =>
                   sidecar'.status = sidecar.status
             /\ (op = "stop" /\ ~raised) => sidecar'.status = "stopped"
             /\ (op = "stop" /\ raised) => sidecar'.status = sidecar.status

\* C24 amended: as stated, except that start() sets "failed" only when
\* _start_engine raises an Exception; when it raises a BaseException that
\* is not an Exception (the cancellation of the awaiting task), start()
\* leaves the status unchanged, and the exception propagates all the same.
StatusMachineOnException ==
    /\ [](Untouched => sidecar.status = "initializing")
    /\ [][StatusMachineStepOnException]_vars

\* an engine that was started, stopped and started again is running, and
\* a start that raised an Exception has been seen failing
StatusMachineWitness ==
    /\ sidecar.of = "BaseSidecarEngine"
    /\ Len(sidecar.calls) = 3
    /\ sidecar.calls[1] = [op |-> "start", pc |-> "returned", exc |-> NoException]
    /\ sidecar.calls[2] = [op |-> "stop", pc |-> "returned", exc |-> NoException]
    /\ sidecar.calls[3] = [op |-> "start", pc |-> "returned", exc |-> NoException]
    /\ sidecar.status = "running"

\* ---------------------------------------------------------------------
\* TestEngine.transcribe and EngineMetrics (test_engine.py, models.py).
\* Coroutines of one event loop: a call runs without interruption from
\* one await to the next.
\* ---------------------------------------------------------------------

MaxRequests == 3

MaxPrior == 1

\* EngineMetrics, with what earlier requests left in it
MetricsAfter(successes, failures) ==
    [total_requests |-> successes + failures,
     successful_requests |-> successes,
     failed_requests |-> failures]

\* EngineMetrics.increment_request
IncrementRequest(metrics) ==
    [metrics EXCEPT !.total_requests = @ + 1]

\* an increment_success that counts the request a second time
IncrementSuccessCountsRequest(metrics) ==
    [metrics EXCEPT !.successful_requests = @ + 1, !.total_requests = @ + 1]

\* EngineMetrics.increment_success
IncrementSuccess(metrics) ==
    [metrics EXCEPT !.successful_requests = @ + 1]

\* EngineMetrics.increment_error
IncrementError(metrics) ==
    [metrics EXCEPT !.failed_requests = @ + 1]

\* a TestEngine whose metrics already counted some requests
NewTestEngine(successes, failures) ==
    [of |-> "TestEngine",
     initial |-> MetricsAfter(successes, failures),
     metrics |-> MetricsAfter(successes, failures),
     calls |-> <<>>]

\* lines 73-85 of a call: increment_request, the check of file_path, then
\* the await of asyncio.sleep; with an empty file_path the ValueError goes
\* to the except clause of line 126, which calls increment_error and
\* returns a FAILED response.  `did` lists the increments the call made,
\* `overlaps` tells that another call was suspended when this one began.
CallTranscribe ==
    /\ sidecar.of = "TestEngine"
    /\ Len(sidecar.calls) < MaxRequests
    /\ \E file_path \in {"", "a.wav"} :
          LET counted == IncrementRequest(sidecar.metrics)
              overlaps == \E j \in DOMAIN sidecar.calls :
                             sidecar.calls[j].pc = "sleeping"
          IN sidecar' =
               IF file_path = ""
               THEN [sidecar EXCEPT
                       !.metrics = IncrementError(counted),
                       !.calls = Append(@, [pc |-> "returned", status |-> "failed",
                                            did |-> <<"request", "error">>,
                                            overlaps |-> overlaps])]
               ELSE [sidecar EXCEPT
                       !.metrics = counted,
                       !.calls = Append(@, [pc |-> "sleeping", status |-> "processing",
                                            did |-> <<"request">>,
                                            overlaps |-> overlaps])]
    /\ UNCHANGED <<orchestrator, limiter, task>>

\* lines 88-124: the sleep is over, no simulated error is drawn;
\* increment_success, the COMPLETED response is built and returned
TranscribeSucceeds ==
    /\ sidecar.of = "TestEngine"
    /\ \E i \in DOMAIN sidecar.calls :
          /\ sidecar.calls[i].pc = "sleeping"
          /\ sidecar' =
               [sidecar EXCEPT
                  !.metrics = IncrementSuccess(@),
                  !.calls[i] = [@ EXCEPT !.pc = "returned", !.status = "completed",
                                         !.did = Append(@, "success")]]
    /\ UNCHANGED <<orchestrator, limiter, task>>

\* lines 88-89 and 126-149: the sleep is over and the simulated
\* RuntimeError is drawn (random.random() < error_rate); the except clause
\* calls increment_error and returns a FAILED response
TranscribeFails ==
    /\ sidecar.of = "TestEngine"
    /\ \E i \in DOMAIN sidecar.calls :
          /\ sidecar.calls[i].pc = "sleeping"
          /\ sidecar' =
               [sidecar EXCEPT
                  !.metrics = IncrementError(@),
                  !.calls[i] = [@ EXCEPT !.pc = "returned", !.status = "failed",
                                         !.did = Append(@, "error")]]
    /\ UNCHANGED <<orchestrator, limiter, task>>

\* the task awaiting the sleep is cancelled: CancelledError is not an
\* Exception, the call is left without a response and without a further
\* increment
TranscribeCancelled ==
    /\ sidecar.of = "TestEngine"
    /\ \E i \in DOMAIN sidecar.calls :
          /\ sidecar.calls[i].pc = "sleeping"
          /\ sidecar' = [sidecar EXCEPT !.calls[i].pc = "cancelled",
                                        !.calls[i].status = "cancelled"]
    /\ UNCHANGED <<orchestrator, limiter, task>>

TranscribeInit ==
    /\ \E successes \in 0..MaxPrior, failures \in 0..MaxPrior :
          sidecar = NewTestEngine(successes, failures)
    /\ now = 0 /\ store = <<>> /\ callers = <<>>
    /\ input = <<>> /\ stack = <<>> /\ status = "idle" /\ result = <<>>
    /\ task = <<>>

TranscribeNext ==
    \/ CallTranscribe
    \/ TranscribeSucceeds
    \/ TranscribeFails
    \/ TranscribeCancelled

TranscribeSpec == TranscribeInit /\ [][TranscribeNext]_vars

\* how many times a call made the increment `what`
Times(call, what) ==
    Cardinality({k \in DOMAIN call.did : call.did[k] = what})

\* the calls that returned a response with the given status
RespondedWith(calls, response_status) ==
    {i \in DOMAIN calls : calls[i].pc = "returned" /\ calls[i].status = response_status}

MaxData == 4

MaxChunkSize == 3

DataBytes == {"a", "b"}

StreamIds == {"s1", "s2"}

\* the byte strings of up to MaxData bytes
Payloads == UNION {[1..n -> DataBytes] : n \in 0..MaxData}

\* where the slice data[i:j] stops: Python clips j to the length
SliceEnd(data, j) == IF j < Len(data) THEN j ELSE Len(data)

\* data[i:i + chunk_size], i counted from 0 as in Python: the slice stops
\* at the end of the data
SliceWithoutLastByte(data, i, chunk_size) ==
    SubSeq(data, i + 1, SliceEnd(data, i + chunk_size) - 1)

Slice(data, i, chunk_size) ==
    SubSeq(data, i + 1, SliceEnd(data, i + chunk_size))

\* base64.b64encode(chunk).decode("utf-8"), kept as the encoded form of
\* the chunk: a value of another type than the bytes it encodes
B64Encode(chunk) == [base64 |-> chunk]

\* the messages of lines 297-328, without their timestamps
StreamHeader(stream_id, total_size) ==
    [type |-> "stream_start", stream_id |-> stream_id, total_size |-> total_size]

StreamChunk(stream_id, chunk, offset) ==
    [type |-> "stream_chunk", stream_id |-> stream_id, offset |-> offset,
     size |-> Len(chunk), data |-> B64Encode(chunk)]

StreamFooter(stream_id) ==
    [type |-> "stream_end", stream_id |-> stream_id]

\* a StreamCommunicator with the given chunk_size on which
\* send_stream(data, stream_id) is called; `out` is what was printed
NewStream(chunk_size, data, stream_id) ==
    [of |-> "StreamCommunicator", chunk_size |-> chunk_size,
     data |-> data, stream_id |-> stream_id,
     pc |-> "header", i |-> 0, out |-> <<>>]

\* where the loop `for i in range(0, len(data), chunk_size)` goes after
\* the header or after the chunk at offset i
RangeContinues(s, i) == i < Len(s.data)

\* line 281
SendStreamHeader ==
    /\ sidecar.of = "StreamCommunicator"
    /\ sidecar.pc = "header"
    /\ sidecar' = [sidecar EXCEPT
                     !.out = Append(@, StreamHeader(sidecar.stream_id, Len(sidecar.data))),
                     !.i = 0,
                     !.pc = IF RangeContinues(sidecar, 0) THEN "chunk" ELSE "footer"]
    /\ UNCHANGED <<orchestrator, limiter, task>>

\* lines 284-286, one turn of the loop
SendStreamChunk ==
    /\ sidecar.of = "StreamCommunicator"
    /\ sidecar.pc = "chunk"
    /\ LET chunk == Slice(sidecar.data, sidecar.i, sidecar.chunk_size)
           next == sidecar.i + sidecar.chunk_size
       IN sidecar' = [sidecar EXCEPT
                        !.out = Append(@, StreamChunk(sidecar.stream_id, chunk, sidecar.i)),
                        !.i = next,
                        !.pc = IF RangeContinues(sidecar, next) THEN "chunk"
                               ELSE "footer"]
    /\ UNCHANGED <<orchestrator, limiter, task>>

\* line 289, and the return
SendStreamFooter ==
    /\ sidecar.of = "StreamCommunicator"
    /\ sidecar.pc = "footer"
    /\ sidecar' = [sidecar EXCEPT !.out = Append(@, StreamFooter(sidecar.stream_id)),
                                  !.pc = "returned"]
    /\ UNCHANGED <<orchestrator, limiter, task>>

\* lines 291-293: a print fails (stdout closed); the exception is logged
\* and raised again, the message is not emitted
StreamPrintRaises ==
    /\ sidecar.of = "StreamCommunicator"
    /\ sidecar.pc \in {"header", "chunk", "footer"}
    /\ sidecar' = [sidecar EXCEPT !.pc = "raised"]
    /\ UNCHANGED <<orchestrator, limiter, task>>

StreamInit ==
    /\ \E chunk_size \in 1..MaxChunkSize, data \in Payloads, stream_id \in StreamIds :
          sidecar = NewStream(chunk_size, data, stream_id)
    /\ now = 0 /\ store = <<>> /\ callers = <<>>
    /\ input = <<>> /\ stack = <<>> /\ status = "idle" /\ result = <<>>
    /\ task = <<>>

StreamNext ==
    \/ SendStreamHeader
    \/ SendStreamChunk
    \/ SendStreamFooter
    \/ StreamPrintRaises

StreamSpec == StreamInit /\ [][StreamNext]_vars

\* ceil(n / d) for d > 0
CeilDiv(n, d) == (n + d - 1) \div d

RECURSIVE SumOfSizes(_)
SumOfSizes(messages) ==
    IF messages = <<>> THEN 0
    ELSE Head(messages).size + SumOfSizes(Tail(messages))

\* C26: a send_stream that returns has emitted, in this order, one
\* stream_start with total_size = len(data), then ceil(len(data)/chunk_size)
\* stream_chunk messages with offsets 0, chunk_size, 2*chunk_size, ...
\* whose sizes sum to len(data), then one stream_end, all with the stream_id
\* of the call.
StreamFraming ==
    (sidecar.of = "StreamCommunicator" /\ sidecar.pc = "returned") =>
       LET out == sidecar.out
           n == Len(out)
           chunks == SubSeq(out, 2, n - 1)
       IN /\ n >= 2
          /\ out[1].type = "stream_start"
          /\ out[1].total_size = Len(sidecar.data)
          /\ out[n].type = "stream_end"
          /\ Len(chunks) = CeilDiv(Len(sidecar.data), sidecar.chunk_size)
          /\ \A k \in DOMAIN chunks :
                /\ chunks[k].type = "stream_chunk"
                /\ chunks[k].offset = (k - 1) * sidecar.chunk_size
          /\ SumOfSizes(chunks) = Len(sidecar.data)
          /\ \A m \in DOMAIN out : out[m].stream_id = sidecar.stream_id

\* a stream whose length is not a multiple of chunk_size was sent in
\* several chunks, the last one short
StreamFramingWitness ==
    /\ sidecar.of = "StreamCommunicator"
    /\ sidecar.pc = "returned"
    /\ Len(sidecar.out) >= 4
    /\ Len(sidecar.data) % sidecar.chunk_size # 0
    /\ sidecar.out[Len(sidecar.out) - 1].size < sidecar.chunk_size

\* ---------------------------------------------------------------------
\* ProcessManager (lifecycle.py) in test mode (no communicator) around a
\* TestEngine, as test_process_lifecycle builds it.  The manager's
\* coroutines run as tasks of one event loop: `running` is the task that
\* has the loop, 0 when the loop is choosing; a task keeps the loop from
\* one suspension to the next.  MainTask is the caller of start() and
\* stop(); the others are the health-check tasks start() creates and the
\* tasks the signal handler creates.  With a
\* TestEngine, engine.start() suspends once (asyncio.sleep) and raises no
\* Exception, engine.stop() and engine.health_check() neither suspend nor
\* raise, so the except clauses of lines 156-159 and 189-192 are never
\* entered.  `fails` stands for an engine like it whose _start_engine
\* raises an Exception every time, after the same suspension: start()
\* then takes its except clause (lines 113-117) and _handle_start_failure.
\* engine_starts counts the calls of engine.start() that have ended;
\* start_time and stop_time count the assignments of a new time stamp
\* (0 is None).
\* ---------------------------------------------------------------------

max_restarts == 3

MaxSignals == 1

MainTask == 1

Frame(fn, pc) == [fn |-> fn, pc |-> pc, ret |-> "none"]

\* asyncio.create_task(coro): a task that has not run yet
CreateTask(coro) ==
    [stack |-> <<Frame(coro, "enter")>>, wait |-> "new", on |-> 0,
     must_cancel |-> FALSE, raising |-> FALSE, done |-> FALSE, cancelled |-> FALSE]

\* ProcessManager.__init__ (lines 36-64) with the engine of
\* BaseSidecarEngine.__init__; `stale` tells that the engine's
\* last_heartbeat is 30 seconds old or more
NewManager(stale, fails) ==
    [of |-> "ProcessManager", state |-> "initializing", restart_count |-> 0,
     stop_event |-> FALSE, health_check_task |-> 0,
     start_time |-> 0, stop_time |-> 0,
     engine_status |-> "initializing", model_loaded |-> FALSE, stale |-> stale,
     fails |-> fails, engine_starts |-> 0,
     signals |-> 0,
     tasks |-> <<[CreateTask("main") EXCEPT !.wait = "run"]>>, running |-> MainTask]

TopFrame(m, t) == m.tasks[t].stack[Len(m.tasks[t].stack)]

\* task t has the loop and is at pc of fn
At(m, t, fn, pc) ==
    /\ t \in DOMAIN m.tasks
    /\ m.running = t
    /\ TopFrame(m, t).fn = fn
    /\ TopFrame(m, t).pc = pc

\* the top frame of t moves to pc
Goto(m, t, pc) ==
    [m EXCEPT !.tasks[t].stack[Len(m.tasks[t].stack)].pc = pc]

\* `await coro()` at the top frame of t, which will go on at pc
Call(m, t, pc, coro) ==
    [m EXCEPT !.tasks[t].stack =
                 Append([@ EXCEPT ![Len(@)].pc = pc], Frame(coro, "enter"))]

\* the top frame of t returns value to the frame below; the coroutine of
\* a task that returns ends the task
ReturnValue(m, t, value) ==
    LET frames == m.tasks[t].stack
        n == Len(frames)
    IN IF n = 1
       THEN [m EXCEPT !.tasks[t].done = TRUE, !.tasks[t].raising = FALSE,
                      !.running = 0]
       ELSE [m EXCEPT !.tasks[t].stack =
                         Append(SubSeq(frames, 1, n - 2),
                                [frames[n - 1] EXCEPT !.ret = value])]

\* t suspends at an await: a sleep, the engine's start, or another task
Suspend(m, t, pc, wait, on) ==
    [Goto(m, t, pc) EXCEPT !.tasks[t].wait = wait, !.tasks[t].on = on,
                           !.running = 0]

\* task.cancel(): a task that is not done gets CancelledError at its next
\* resumption
Cancel(m, x) ==
    IF x # 0 /\ ~m.tasks[x].done THEN [m EXCEPT !.tasks[x].must_cancel = TRUE]
    ELSE m

\* the event loop may resume t: it is not done, and it is new, or what it
\* awaits is over, or it was cancelled
Ready(m, t) ==
    /\ ~m.tasks[t].done
    /\ \/ m.tasks[t].wait \in {"new", "sleep", "engine"}
       \/ m.tasks[t].wait = "task" /\ m.tasks[m.tasks[t].on].done
       \/ m.tasks[t].must_cancel

\* the event loop gives a ready task the loop.  A cancelled task resumes
\* with CancelledError raised at its await (a task cancelled before its
\* first step never runs); so does a task that awaited a task that ended
\* cancelled.
EventLoopResumes ==
    /\ sidecar.of = "ProcessManager"
    /\ sidecar.running = 0
    /\ \E t \in DOMAIN sidecar.tasks :
          /\ Ready(sidecar, t)
          /\ LET resumed == sidecar.tasks[t]
             IN sidecar' =
                  IF resumed.wait = "new" /\ resumed.must_cancel
                  THEN [sidecar EXCEPT !.tasks[t].done = TRUE,
                                       !.tasks[t].cancelled = TRUE,
                                       !.tasks[t].must_cancel = FALSE]
                  ELSE [sidecar EXCEPT
                          !.running = t,
                          !.tasks[t].wait = "run",
                          !.tasks[t].must_cancel = FALSE,
                          !.tasks[t].raising =
                             \/ resumed.must_cancel
                             \/ resumed.wait = "task" /\ sidecar.tasks[resumed.on].cancelled]
    /\ UNCHANGED <<orchestrator, limiter, task>>

\* thirty seconds pass without a request: base_engine.py line 137 finds
\* the heartbeat too old from now on (only process_request renews it)
HeartbeatExpires ==
    /\ sidecar.of = "ProcessManager"
    /\ ~sidecar.stale
    /\ sidecar' = [sidecar EXCEPT !.stale = TRUE]
    /\ UNCHANGED <<orchestrator, limiter, task>>

\* _signal_handler, lines 73-82: SIGINT and SIGTERM create a task that
\* runs stop(), SIGHUP one that runs restart(); a signal can arrive at any
\* moment
SignalHandler ==
    /\ sidecar.of = "ProcessManager"
    /\ sidecar.signals < MaxSignals
    /\ \E coro \in {"stop", "restart"} :
          sidecar' = [sidecar EXCEPT !.signals = @ + 1,
                                     !.tasks = Append(@, CreateTask(coro))]
    /\ UNCHANGED <<orchestrator, limiter, task>>

\* the caller: success = await process_manager.start()
CallerCallsStart ==
    /\ sidecar.of = "ProcessManager"
    /\ At(sidecar, MainTask, "main", "enter")
    /\ sidecar' = Call(sidecar, MainTask, "after_start", "start")
    /\ UNCHANGED <<orchestrator, limiter, task>>

\* the caller goes on to stop() without giving up the loop, as the tests do
CallerCallsStop ==
    /\ sidecar.of = "ProcessManager"
    /\ \/ At(sidecar, MainTask, "main", "after_start")
       \/ At(sidecar, MainTask, "main", "idle")
    /\ sidecar' = Call(sidecar, MainTask, "after_stop", "stop")
    /\ UNCHANGED <<orchestrator, limiter, task>>

\* the caller awaits something else before it calls stop(): the loop is
\* free for the other tasks
CallerWaits ==
    /\ sidecar.of = "ProcessManager"
    /\ At(sidecar, MainTask, "main", "after_start")
    /\ sidecar' = Suspend(sidecar, MainTask, "idle", "sleep", 0)
    /\ UNCHANGED <<orchestrator, limiter, task>>

\* the caller has the result of stop() and ends
CallerReturns ==
    /\ sidecar.of = "ProcessManager"
    /\ At(sidecar, MainTask, "main", "after_stop")
    /\ sidecar' = ReturnValue(Goto(sidecar, MainTask, "end"), MainTask, "none")
    /\ UNCHANGED <<orchestrator, limiter, task>>

\* a start() that goes ahead whenever the state is not RUNNING
StartRefusedWhenRunning(state) == state = "running"

\* line 86
StartRefused(state) == state \in {"running", "starting"}

\* a stop() that goes ahead whenever the state is not STOPPED
StopRefusedWhenStopped(state) == state = "stopped"

\* line 121
StopRefused(state) == state \in {"stopped", "stopping"}

\* a restart that counts twice
RestartCountSkips(restart_count) == restart_count + 2

\* line 169
RestartCountIncremented(restart_count) == restart_count + 1

\* start(), lines 86-96: the state check, STARTING, the time stamp, and
\* the await of engine.start(), which suspends in TestEngine._start_engine
StartEnter ==
    /\ sidecar.of = "ProcessManager"
    /\ \E t \in DOMAIN sidecar.tasks :
          /\ At(sidecar, t, "start", "enter")
          /\ sidecar' =
               IF StartRefused(sidecar.state)
               THEN ReturnValue(sidecar, t, "False")
               ELSE Suspend([sidecar EXCEPT !.state = "starting",
                                            !.start_time = @ + 1],
                            t, "engine_start", "engine", 0)
    /\ UNCHANGED <<orchestrator, limiter, task>>

\* start(), lines 96-111: the engine has started (status "running",
\* model loaded), the health-check task is created, RUNNING, return True
StartEngineStarted ==
    /\ sidecar.of = "ProcessManager"
    /\ \E t \in DOMAIN sidecar.tasks :
          /\ At(sidecar, t, "start", "engine_start")
          /\ ~sidecar.tasks[t].raising
          /\ ~sidecar.fails
          /\ sidecar' =
               ReturnValue([sidecar EXCEPT
                         !.engine_starts = @ + 1,
                         !.engine_status = "running",
                         !.model_loaded = TRUE,
                         !.tasks = Append(@, CreateTask("_health_check_loop")),
                         !.health_check_task = Len(sidecar.tasks) + 1,
                         !.state = "running"],
                      t, "True")
    /\ UNCHANGED <<orchestrator, limiter, task>>

\* start(), lines 96 and 113-116, with base_engine.py lines 185-188: the
\* engine's start raises, its status is "failed"; FAILED, and the call of
\* _handle_start_failure
StartEngineFails ==
    /\ sidecar.of = "ProcessManager"
    /\ \E t \in DOMAIN sidecar.tasks :
          /\ At(sidecar, t, "start", "engine_start")
          /\ ~sidecar.tasks[t].raising
          /\ sidecar.fails
          /\ sidecar' = Call([sidecar EXCEPT !.engine_starts = @ + 1,
                                             !.engine_status = "failed",
                                             !.state = "failed"],
                             t, "after_handle", "_handle_start_failure")
    /\ UNCHANGED <<orchestrator, limiter, task>>

\* start(), line 117
StartReturnsFalse ==
    /\ sidecar.of = "ProcessManager"
    /\ \E t \in DOMAIN sidecar.tasks :
          /\ At(sidecar, t, "start", "after_handle")
          /\ ~sidecar.tasks[t].raising
          /\ sidecar' = ReturnValue(sidecar, t, "False")
    /\ UNCHANGED <<orchestrator, limiter, task>>

\* _handle_start_failure, lines 199-205: sleep before a restart while the
\* budget lasts, FAILED otherwise
HandleStartFailure ==
    /\ sidecar.of = "ProcessManager"
    /\ \E t \in DOMAIN sidecar.tasks :
          /\ At(sidecar, t, "_handle_start_failure", "enter")
          /\ sidecar' =
               IF sidecar.restart_count < max_restarts
               THEN Suspend(sidecar, t, "slept", "sleep", 0)
               ELSE ReturnValue([sidecar EXCEPT !.state = "failed"], t, "none")
    /\ UNCHANGED <<orchestrator, limiter, task>>

\* _handle_start_failure, line 202: await self.restart()
HandleCallsRestart ==
    /\ sidecar.of = "ProcessManager"
    /\ \E t \in DOMAIN sidecar.tasks :
          /\ At(sidecar, t, "_handle_start_failure", "slept")
          /\ ~sidecar.tasks[t].raising
          /\ sidecar' = Call(sidecar, t, "after_restart", "restart")
    /\ UNCHANGED <<orchestrator, limiter, task>>

\* _handle_start_failure returns after the restart
HandleReturns ==
    /\ sidecar.of = "ProcessManager"
    /\ \E t \in DOMAIN sidecar.tasks :
          /\ At(sidecar, t, "_handle_start_failure", "after_restart")
          /\ ~sidecar.tasks[t].raising
          /\ sidecar' = ReturnValue(sidecar, t, "none")
    /\ UNCHANGED <<orchestrator, limiter, task>>

\* stop(), lines 121-137: the state check, STOPPING, stop_event.set(),
\* the health-check task is cancelled and awaited
StopEnter ==
    /\ sidecar.of = "ProcessManager"
    /\ \E t \in DOMAIN sidecar.tasks :
          /\ At(sidecar, t, "stop", "enter")
          /\ sidecar' =
               IF StopRefused(sidecar.state)
               THEN ReturnValue(sidecar, t, "False")
               ELSE LET m == Cancel([sidecar EXCEPT !.state = "stopping",
                                                    !.stop_event = TRUE],
                                    sidecar.health_check_task)
                        h == sidecar.health_check_task
                    IN IF h = 0 \/ (m.tasks[h].done /\ ~m.tasks[h].cancelled)
                       THEN Goto(m, t, "await_health")
                       ELSE IF m.tasks[h].done
                       THEN [Goto(m, t, "await_health") EXCEPT !.tasks[t].raising = TRUE]
                       ELSE Suspend(m, t, "await_health", "task", h)
    /\ UNCHANGED <<orchestrator, limiter, task>>

\* stop(), lines 138-154: a CancelledError at the await is passed over;
\* monitoring stops, the engine stops (status "stopped", model unloaded),
\* STOPPED, return True
StopAfterHealthTask ==
    /\ sidecar.of = "ProcessManager"
    /\ \E t \in DOMAIN sidecar.tasks :
          /\ At(sidecar, t, "stop", "await_health")
          /\ sidecar' =
               ReturnValue([sidecar EXCEPT !.tasks[t].raising = FALSE,
                                      !.engine_status = "stopped",
                                      !.model_loaded = FALSE,
                                      !.state = "stopped",
                                      !.stop_time = @ + 1],
                      t, "True")
    /\ UNCHANGED <<orchestrator, limiter, task>>

\* restart(), lines 163-173: the restart budget, RESTARTING, the count,
\* and the call of stop()
RestartEnter ==
    /\ sidecar.of = "ProcessManager"
    /\ \E t \in DOMAIN sidecar.tasks :
          /\ At(sidecar, t, "restart", "enter")
          /\ sidecar' =
               IF sidecar.restart_count >= max_restarts
               THEN ReturnValue(sidecar, t, "False")
               ELSE Call([sidecar EXCEPT !.state = "restarting",
                                         !.restart_count =
                                             RestartCountIncremented(@)],
                         t, "after_stop", "stop")
    /\ UNCHANGED <<orchestrator, limiter, task>>

\* restart(), line 176: await asyncio.sleep(self.restart_delay)
RestartSleeps ==
    /\ sidecar.of = "ProcessManager"
    /\ \E t \in DOMAIN sidecar.tasks :
          /\ At(sidecar, t, "restart", "after_stop")
          /\ sidecar' = Suspend(sidecar, t, "slept", "sleep", 0)
    /\ UNCHANGED <<orchestrator, limiter, task>>

\* restart(), line 179: success = await self.start()
RestartCallsStart ==
    /\ sidecar.of = "ProcessManager"
    /\ \E t \in DOMAIN sidecar.tasks :
          /\ At(sidecar, t, "restart", "slept")
          /\ ~sidecar.tasks[t].raising
          /\ sidecar' = Call(sidecar, t, "after_start", "start")
    /\ UNCHANGED <<orchestrator, limiter, task>>

\* restart(), lines 181-187: the count is reset after a successful start
RestartReturns ==
    /\ sidecar.of = "ProcessManager"
    /\ \E t \in DOMAIN sidecar.tasks :
          /\ At(sidecar, t, "restart", "after_start")
          /\ ~sidecar.tasks[t].raising
          /\ sidecar' =
               IF TopFrame(sidecar, t).ret = "True"
               THEN ReturnValue([sidecar EXCEPT !.restart_count = 0], t, "True")
               ELSE ReturnValue(sidecar, t, "False")
    /\ UNCHANGED <<orchestrator, limiter, task>>

\* BaseSidecarEngine.health_check with TestEngine._check_engine_health:
\* healthy when the model is loaded, the status is "running" and the
\* heartbeat is less than 30 seconds old
Healthy(m) == m.model_loaded /\ m.engine_status = "running" /\ ~m.stale

\* _health_check_loop, lines 213-229, one turn: the loop ends when
\* stop_event is set; an unhealthy engine is restarted; otherwise the
\* task sleeps for health_check_interval
HealthCheckTurn ==
    /\ sidecar.of = "ProcessManager"
    /\ \E t \in DOMAIN sidecar.tasks :
          /\ At(sidecar, t, "_health_check_loop", "enter")
          /\ ~sidecar.tasks[t].raising
          /\ sidecar' =
               IF sidecar.stop_event THEN ReturnValue(sidecar, t, "none")
               ELSE IF ~Healthy(sidecar) THEN Call(sidecar, t, "after_restart", "restart")
               ELSE Suspend(sidecar, t, "enter", "sleep", 0)
    /\ UNCHANGED <<orchestrator, limiter, task>>

\* _health_check_loop, lines 224-225: `break` after the restart
HealthCheckBreaks ==
    /\ sidecar.of = "ProcessManager"
    /\ \E t \in DOMAIN sidecar.tasks :
          /\ At(sidecar, t, "_health_check_loop", "after_restart")
          /\ ~sidecar.tasks[t].raising
          /\ sidecar' = ReturnValue(sidecar, t, "none")
    /\ UNCHANGED <<orchestrator, limiter, task>>

\* _health_check_loop, lines 230-231: except asyncio.CancelledError: break
HealthCheckCancelled ==
    /\ sidecar.of = "ProcessManager"
    /\ \E t \in DOMAIN sidecar.tasks :
          /\ \/ At(sidecar, t, "_health_check_loop", "enter")
             \/ At(sidecar, t, "_health_check_loop", "after_restart")
          /\ sidecar.tasks[t].raising
          /\ sidecar' = ReturnValue(sidecar, t, "none")
    /\ UNCHANGED <<orchestrator, limiter, task>>

\* a CancelledError raised at the sleep of restart() or at the engine
\* start of start() is not an Exception: no except clause of start() or
\* restart() takes it, and it leaves the coroutine for its caller with
\* the state as it was
CancelledErrorPropagates ==
    /\ sidecar.of = "ProcessManager"
    /\ \E t \in DOMAIN sidecar.tasks :
          /\ \/ At(sidecar, t, "start", "engine_start")
             \/ At(sidecar, t, "restart", "slept")
             \/ At(sidecar, t, "restart", "after_start")
             \/ At(sidecar, t, "start", "after_handle")
             \/ At(sidecar, t, "_handle_start_failure", "slept")
             \/ At(sidecar, t, "_handle_start_failure", "after_restart")
          /\ sidecar.tasks[t].raising
          /\ sidecar' = ReturnValue(sidecar, t, "none")
    /\ UNCHANGED <<orchestrator, limiter, task>>

ManagerInit ==
    /\ \E stale \in BOOLEAN, fails \in BOOLEAN : sidecar = NewManager(stale, fails)
    /\ now = 0 /\ store = <<>> /\ callers = <<>>
    /\ input = <<>> /\ stack = <<>> /\ status = "idle" /\ result = <<>>
    /\ task = <<>>

ManagerNext ==
    \/ EventLoopResumes
    \/ HeartbeatExpires
    \/ SignalHandler
    \/ CallerCallsStart
    \/ CallerCallsStop
    \/ CallerWaits
    \/ CallerReturns
    \/ StartEnter
    \/ StartEngineStarted
    \/ StartEngineFails
    \/ StartReturnsFalse
    \/ HandleStartFailure
    \/ HandleCallsRestart
    \/ HandleReturns
    \/ StopEnter
    \/ StopAfterHealthTask
    \/ RestartEnter
    \/ RestartSleeps
    \/ RestartCallsStart
    \/ RestartReturns
    \/ HealthCheckTurn
    \/ HealthCheckBreaks
    \/ HealthCheckCancelled
    \/ CancelledErrorPropagates

ManagerSpec == ManagerInit /\ [][ManagerNext]_vars

\* get_status()["state"], line 306
GetStatusState(m) == m.state

\* C27: on a fresh manager whose engine starts successfully, start()
\* returns True and leaves the state RUNNING (get_status reports
\* "running"); the stop() that follows returns True and leaves the state
\* STOPPED.  (Stated of the runs in which no signal arrives and the
\* engine's start does not fail.)
StartThenStop ==
    (sidecar.of = "ProcessManager" /\ sidecar.signals = 0 /\ ~sidecar.fails) =>
       /\ (\/ At(sidecar, MainTask, "main", "after_start")
           \/ At(sidecar, MainTask, "main", "idle")) =>
              TopFrame(sidecar, MainTask).ret = "True"
       /\ At(sidecar, MainTask, "main", "after_start") =>
              GetStatusState(sidecar) = "running"
       /\ At(sidecar, MainTask, "main", "after_stop") =>
              /\ TopFrame(sidecar, MainTask).ret = "True"
              /\ GetStatusState(sidecar) = "stopped"

\* ---------------------------------------------------------------------
\* Further properties of the document pipeline
\* ---------------------------------------------------------------------

MaxTokensPerBatch == 2
MaxTexts == 3

BATCH_SEPARATOR == "|||---|||"

\* a text whose estimate alone exceeds the budget
Oversize == [k \in 1..(2 * MaxTokensPerBatch + 1) |-> "x"]

\* block.text of the parsed blocks: empty, short, holding the separator, oversize
BlockTexts == { <<>>, <<"x">>, <<"x", BATCH_SEPARATOR, "y">>, Oversize }

SrtFiles == UNION { [1..n -> BlockTexts] : n \in 0..MaxTexts }

\* len(text) * TOKENS_PER_CHAR, in half tokens
TextTokenCount(text) == Len(text)

\* current_token_count + text_token_count > MAX_TOKENS_PER_BATCH
OverBudget(current_token_count, text) ==
    current_token_count + TextTokenCount(text) > 2 * MaxTokensPerBatch

\* a reply of k padded fragments joined by the separator
Fragments(k) == Join([j \in 1..k |-> <<" ", "T", " ">>], BATCH_SEPARATOR)

\* what client.chat.completions.create does for a batch: it raises, or its
\* message content is empty (None or ""), blank, the request echoed, or one
\* fewer, exactly as many or one more fragment than the batch has texts
LLMReplies(texts) ==
    { [kind |-> "raises", content |-> <<>>] }
      \cup { [kind |-> "content", content |-> c] :
               c \in { <<>>, <<" ">>, Join(texts, BATCH_SEPARATOR),
                       Fragments(Len(texts) - 1), Fragments(Len(texts)),
                       Fragments(Len(texts) + 1) } }

\* the reply recorded for a call that returns before it reaches the LLM
NoReply == [kind |-> "not called", content |-> <<>>]

\* a fallback that hands on whatever fragments the reply holds
TranslatorBatchKeepsFragments(texts, reply) ==
    IF texts = <<>> THEN <<>>
    ELSE IF reply.kind = "raises" \/ reply.content = <<>> THEN texts
    ELSE LET translated_fragments == Split(reply.content, BATCH_SEPARATOR)
         IN  [j \in 1..Len(translated_fragments) |-> Strip(translated_fragments[j])]

\* _translate_batch(texts, ...) when the LLM call behaves as reply
TranslatorBatch(texts, reply) ==
    IF texts = <<>> THEN <<>>
    ELSE IF reply.kind = "raises" THEN texts
    ELSE IF reply.content = <<>> THEN texts
    ELSE LET translated_fragments == Split(reply.content, BATCH_SEPARATOR)
         IN  IF Len(translated_fragments) # Len(texts) THEN texts
             ELSE [j \in 1..Len(translated_fragments) |-> Strip(translated_fragments[j])]

NewTranslateFile(all_texts) ==
    [of |-> "translate_file", pc |-> "start", all_texts |-> all_texts, i |-> 0,
     current_batch |-> <<>>, current_token_count |-> 0,
     translated_texts |-> <<>>, calls |-> <<>>, raised |-> "none"]

CallRecord(texts, reply) ==
    [texts |-> texts, reply |-> reply, returned |-> TranslatorBatch(texts, reply)]

\* lines 122-123: no subtitle block
TranslateFileEmpty ==
    /\ task # <<>> /\ task.of = "translate_file" /\ task.pc = "start"
    /\ task.all_texts = <<>>
    /\ task' = [task EXCEPT !.pc = "raised",
                   !.raised = "The SRT file is empty or has an invalid format."]
    /\ UNCHANGED <<input, stack, status, result, now, store, callers, sidecar>>

\* lines 127-133
TranslateFileBegins ==
    /\ task # <<>> /\ task.of = "translate_file" /\ task.pc = "start"
    /\ task.all_texts # <<>>
    /\ task' = [task EXCEPT !.pc = "loop"]
    /\ UNCHANGED <<input, stack, status, result, now, store, callers, sidecar>>

\* lines 142-144: the text fits the budget of the current batch
TranslateFileAppends ==
    /\ task # <<>> /\ task.of = "translate_file" /\ task.pc = "loop"
    /\ task.i < Len(task.all_texts)
    /\ LET text == task.all_texts[task.i + 1]
       IN  /\ ~OverBudget(task.current_token_count, text)
           /\ task' = [task EXCEPT !.i = @ + 1,
                          !.current_batch = Append(@, text),
                          !.current_token_count = @ + TextTokenCount(text)]
    /\ UNCHANGED <<input, stack, status, result, now, store, callers, sidecar>>

\* lines 137-141: the current batch is translated and the text opens the next
TranslateFileFlushes ==
    /\ task # <<>> /\ task.of = "translate_file" /\ task.pc = "loop"
    /\ task.i < Len(task.all_texts)
    /\ LET text == task.all_texts[task.i + 1]
       IN  /\ OverBudget(task.current_token_count, text)
           /\ \E reply \in (IF task.current_batch = <<>> THEN {NoReply}
                            ELSE LLMReplies(task.current_batch)) :
                 task' = [task EXCEPT !.i = @ + 1,
                             !.translated_texts =
                                 @ \o TranslatorBatch(task.current_batch, reply),
                             !.calls = Append(@, CallRecord(task.current_batch, reply)),
                             !.current_batch = <<text>>,
                             !.current_token_count = TextTokenCount(text)]
    /\ UNCHANGED <<input, stack, status, result, now, store, callers, sidecar>>

\* lines 152-154: the last remaining batch
TranslateFileLastBatch ==
    /\ task # <<>> /\ task.of = "translate_file" /\ task.pc = "loop"
    /\ task.i = Len(task.all_texts)
    /\ IF task.current_batch # <<>>
       THEN \E reply \in LLMReplies(task.current_batch) :
               task' = [task EXCEPT !.pc = "check",
                           !.translated_texts =
                               @ \o TranslatorBatch(task.current_batch, reply),
                           !.calls = Append(@, CallRecord(task.current_batch, reply))]
       ELSE task' = [task EXCEPT !.pc = "check"]
    /\ UNCHANGED <<input, stack, status, result, now, store, callers, sidecar>>

\* lines 156-157: the final count check
TranslateFileCountCheck ==
    /\ task # <<>> /\ task.of = "translate_file" /\ task.pc = "check"
    /\ IF Len(task.translated_texts) # Len(task.all_texts)
       THEN task' = [task EXCEPT !.pc = "raised",
                        !.raised = "Mismatch in translated text count after batching."]
       ELSE task' = [task EXCEPT !.pc = "done"]
    /\ UNCHANGED <<input, stack, status, result, now, store, callers, sidecar>>

TranslatorInit ==
    /\ \E all_texts \in SrtFiles : task = NewTranslateFile(all_texts)
    /\ now = 0 /\ store = <<>> /\ callers = <<>>
    /\ input = <<>> /\ stack = <<>> /\ status = "idle" /\ result = <<>>
    /\ sidecar = <<>>

TranslatorNext ==
    \/ TranslateFileEmpty
    \/ TranslateFileBegins
    \/ TranslateFileAppends
    \/ TranslateFileFlushes
    \/ TranslateFileLastBatch
    \/ TranslateFileCountCheck

TranslatorSpec == TranslatorInit /\ [][TranslatorNext]_vars

\* the batches handed to _translate_batch so far, in order
BatchesSent == [k \in 1..Len(task.calls) |-> task.calls[k].texts]

\* the texts are placed in batches in document order, each exactly once, every
\* call returns as many strings as it was given, and the count check passes
CountPreserved ==
    /\ task.pc \in {"start", "loop"} =>
          Flat(BatchesSent) \o task.current_batch = SubSeq(task.all_texts, 1, task.i)
    /\ task.pc \in {"check", "done"} => Flat(BatchesSent) = task.all_texts
    /\ \A k \in 1..Len(task.calls) :
          Len(task.calls[k].returned) = Len(task.calls[k].texts)
    /\ task.raised # "Mismatch in translated text count after batching."

\* the strings a call returns, as a function of the reply alone: the trimmed
\* fragments when the reply splits into as many fragments as the batch has texts
FragmentsWhenSplitMatches(c) ==
    LET pieces == Split(c.reply.content, BATCH_SEPARATOR)
    IN  IF c.reply.kind = "content" /\ Len(pieces) = Len(c.texts)
        THEN c.returned = [j \in 1..Len(pieces) |-> Strip(pieces[j])]
        ELSE c.returned = c.texts

\* the same, with the empty reply counted among the failures
FragmentsWhenNonEmptySplitMatches(c) ==
    LET pieces == Split(c.reply.content, BATCH_SEPARATOR)
    IN  IF c.reply.kind = "content" /\ c.reply.content # <<>>
           /\ Len(pieces) = Len(c.texts)
        THEN c.returned = [j \in 1..Len(pieces) |-> Strip(pieces[j])]
        ELSE c.returned = c.texts

\* C32 as stated: the token-budget variant places every text in exactly one
\* batch in document order, and _translate_batch returns len(texts) strings
\* for every LLM behaviour, the trimmed fragments when the response splits
\* into exactly len(texts) fragments and the original texts otherwise, so
\* that the final count check never fails.
TokenBatchingAsStated ==
    (task # <<>> /\ task.of = "translate_file") =>
       /\ CountPreserved
       /\ \A k \in 1..Len(task.calls) : FragmentsWhenSplitMatches(task.calls[k])

\* C32, amended: the same, where an empty response is a failure that returns
\* the original texts even for a batch of one text, although splitting the
\* empty string yields exactly one fragment.
TokenBatching ==
    (task # <<>> /\ task.of = "translate_file") =>
       /\ CountPreserved
       /\ \A k \in 1..Len(task.calls) :
             FragmentsWhenNonEmptySplitMatches(task.calls[k])

\* a file of several batches passed the count check, with one batch empty,
\* one translated and one returned unchanged after a mismatching reply
TokenBatchingWitness ==
    /\ task # <<>> /\ task.of = "translate_file" /\ task.pc = "done"
    /\ Len(task.calls) >= 3
    /\ \E k \in 1..Len(task.calls) : task.calls[k].texts = <<>>
    /\ \E k \in 1..Len(task.calls) :
          /\ task.calls[k].texts # <<>>
          /\ task.calls[k].returned # task.calls[k].texts
    /\ \E k \in 1..Len(task.calls) :
          /\ task.calls[k].reply.kind = "content"
          /\ Len(Split(task.calls[k].reply.content, BATCH_SEPARATOR))
                # Len(task.calls[k].texts)
          /\ task.calls[k].returned = task.calls[k].texts

\* C33: a task whose parsed file holds no subtitles makes no translate_batch
\* call, writes a result file and ends in SUCCESS, not in FAILURE.
EmptyFileSucceeds ==
    (task # <<>> /\ task.pc = "done" /\ task.source = <<>> /\ task.raised # "Exception") =>
       /\ task.calls = <<>>
       /\ task.state = "SUCCESS"

(***************************************************************************)
(* Further properties of translate_batch.                                  *)
(***************************************************************************)
\* C34: for a top-level call with max_retries = m, no sub-batch reached by
\* recursive splitting receives more than m batch-level attempts: the counter
\* of raised attempts of an invocation below the top never exceeds m.
BudgetInherited ==
    \A k \in 2..Len(stack) :
       stack[k].attempt <= (IF input.max_retries > 0 THEN input.max_retries ELSE 0)

\* a unit's text in the result was taken from a batch response
FromBatchResponse(text) ==
    \E j \in 1..Len(BWord) : text = <<BWord[j]>> \/ text = <<CWord[j]>>

SentOnce(f) ==
    LET s == SentBy(f)
        n == Len(f.batch)
    IN  /\ \A a, b \in 1..Len(s) : a # b => s[a] # s[b]
        /\ \A a \in 1..Len(s) : \E p \in 1..n : f.batch[p].id = s[a]
        /\ Len(s) <= n
        /\ f.via = "repair" =>
              \A k \in 1..Len(f.singles) : f.singles[k] \notin DOMAIN f.translated_map
        /\ f.pc = "return" =>
              \A p \in 1..n :
                 FromBatchResponse(f.out[p].text) =>
                    \A a \in 1..Len(s) : s[a] # f.batch[p].id

\* C35: within one translate_batch call tree each unit is handed to the
\* single-unit call at most once, a unit whose text was accepted from a batch
\* response is never handed to it, and the single-unit calls of the tree are
\* at most len(batch).
OnceToSingle == \A k \in 1..Len(stack) : SentOnce(stack[k])

\* a top-level call that split returns with some units translated one by one
\* and others accepted from the batch response of a half
OnceToSingleWitness ==
    /\ Len(stack) = 1 /\ Top.pc = "return" /\ Top.path = "split"
    /\ Len(Top.batch) = MaxBatch
    /\ Len(SentBy(Top)) > MaxBatch \div 2
    /\ Len(SentBy(Top)) < MaxBatch
    /\ \E p \in 1..Len(Top.batch) : FromBatchResponse(Top.out[p].text)

(***************************************************************************)
(* The prompt codec: the numbered list of line 89 built unit by unit from  *)
(* the texts of a batch, then decoded by _get_numbered_text_map.           *)
(***************************************************************************)
MaxCodecUnits == 5

\* texts without a newline: empty, a word, blanks around a word, a text that
\* begins with a number and a dot, a number and a dot alone
CodecTexts ==
    { <<>>, <<"a">>, <<" ", "a", "\t">>, <<"2", ".", " ", "b">>, <<"3", ".">> }

CodecBatches == UNION { [1..n -> CodecTexts] : n \in 0..MaxCodecUnits }

\* a list numbered from zero
NumberedLineFromZero(i, text) == IntToStr(i) \o <<".", " ">> \o text

\* f"{i+1}. {item['text']}" for the unit at 0-based position i
NumberedLine(i, text) == IntToStr(i + 1) \o <<".", " ">> \o text

\* line 89, the list comprehension, one unit at a time
EncodeUnit ==
    /\ status = "running" /\ stack # <<>> /\ Top.pc = "encode"
    /\ Top.i < Len(Top.batch)
    /\ stack' = <<[Top EXCEPT !.i = @ + 1,
                              !.lines = Append(@, NumberedLine(Top.i, Top.batch[Top.i + 1]))]>>
    /\ UNCHANGED <<input, status, result, limiter, task, sidecar>>

\* line 89, the join; the list is then handed to _get_numbered_text_map
EncodeJoin ==
    /\ status = "running" /\ stack # <<>> /\ Top.pc = "encode"
    /\ Top.i = Len(Top.batch)
    /\ stack' = <<DecoderFrame(Join(Top.lines, "\n"))>>
    /\ UNCHANGED <<input, status, result, limiter, task, sidecar>>

CodecInit ==
    /\ \E batch \in CodecBatches :
          /\ input = batch
          /\ stack = <<[pc |-> "encode", batch |-> batch, i |-> 0, lines |-> <<>>]>>
    /\ status = "running"
    /\ result = <<>>
    /\ now = 0 /\ store = <<>> /\ callers = <<>>
    /\ task = <<>>
    /\ sidecar = <<>>

CodecNext ==
    \/ EncodeUnit
    \/ EncodeJoin
    \/ DecodeLine
    \/ DecodeReturn

CodecSpec == CodecInit /\ [][CodecNext]_vars

\* C36: for a batch whose texts hold no newline, decoding the numbered list
\* built from it returns a map with exactly the keys 1..len(batch) whose
\* value at position i is the trimmed text of unit i, the empty text and a
\* text beginning with a number and a dot included.
CodecRoundTrip ==
    /\ status # "raised"
    /\ status = "done" =>
          /\ DOMAIN result = 1..Len(input)
          /\ \A p \in 1..Len(input) : result[p] = Strip(input[p])

\* a batch of five units was encoded and decoded: an empty text at the end, a
\* text beginning with a number and a dot, and a text that had to be trimmed
CodecRoundTripWitness ==
    /\ status = "done"
    /\ Len(input) = 5
    /\ input[5] = <<>>
    /\ input[1] = <<"2", ".", " ", "b">>
    /\ input[2] = <<" ", "a", "\t">>
    /\ result[1] = <<"2", ".", " ", "b">>
    /\ result[2] = <<"a">>
    /\ result[5] = <<>>

\* ---------------------------------------------------------------------
\* Further properties of the process manager
\* ---------------------------------------------------------------------

\* C37: when restart() has returned True to the health-check loop that
\* called it, the state is RUNNING, restart_count is 0 and the stop event
\* is not set, so that the health-check loop start() has just created
\* goes on instead of ending at its first test of the event.
RestartLeavesRunning ==
    sidecar.of = "ProcessManager" =>
       \A t \in DOMAIN sidecar.tasks :
          (/\ At(sidecar, t, "_health_check_loop", "after_restart")
           /\ ~sidecar.tasks[t].raising
           /\ TopFrame(sidecar, t).ret = "True") =>
             /\ sidecar.state = "running"
             /\ sidecar.restart_count = 0
             /\ ~sidecar.stop_event

\* the event loop keeps running its ready tasks, and sleeps and engine
\* calls come to an end
ManagerFair == ManagerSpec /\ WF_vars(ManagerNext)

\* the caller's start() has returned
MainStartReturned ==
    /\ Len(sidecar.tasks[MainTask].stack) = 1
    /\ sidecar.tasks[MainTask].stack[1].pc # "enter"

StartGivesUpShape ==
    sidecar.of = "ProcessManager" =>
       /\ sidecar.restart_count <= max_restarts
       /\ sidecar.fails => sidecar.engine_starts <= 1 + max_restarts
       /\ (/\ sidecar.fails /\ sidecar.signals = 0
           /\ At(sidecar, MainTask, "main", "after_start")) =>
             /\ TopFrame(sidecar, MainTask).ret = "False"
             /\ sidecar.engine_starts = 1 + max_restarts
             /\ sidecar.state = "failed"
             /\ sidecar.restart_count = max_restarts

\* C38: when the engine's start fails every time, start() comes to an end
\* and returns False after exactly 1 + max_restarts engine start attempts,
\* with the state FAILED and restart_count = max_restarts (in the runs
\* without signals); restart_count never exceeds max_restarts in any run.
StartGivesUp ==
    /\ []StartGivesUpShape
    /\ (sidecar.of = "ProcessManager" /\ sidecar.fails) ~> MainStartReturned

\* start() has returned False to its caller after four failed engine starts
StartGivesUpWitness ==
    /\ sidecar.of = "ProcessManager" /\ sidecar.fails /\ sidecar.signals = 0
    /\ At(sidecar, MainTask, "main", "after_start")
    /\ TopFrame(sidecar, MainTask).ret = "False"
    /\ sidecar.engine_starts = 4
    /\ sidecar.restart_count = 3
    /\ sidecar.state = "failed"

\* the fields of the manager and its engine that a refused call leaves alone
GuardedFields(m) ==
    <<m.state, m.start_time, m.stop_time, m.restart_count, m.stop_event,
      m.engine_starts, m.engine_status, m.model_loaded, m.health_check_task>>

\* task t is about to run start() in RUNNING or STARTING, or stop() in
\* STOPPED or STOPPING
GuardApplies(m, t) ==
    \/ At(m, t, "start", "enter") /\ m.state \in {"running", "starting"}
    \/ At(m, t, "stop", "enter") /\ m.state \in {"stopped", "stopping"}

GuardStep ==
    sidecar.of = "ProcessManager" =>
       \A t \in DOMAIN sidecar.tasks :
          (GuardApplies(sidecar, t) /\ sidecar'.tasks[t] # sidecar.tasks[t]) =>
             LET frames == sidecar.tasks[t].stack
                 n == Len(frames)
             IN  /\ GuardedFields(sidecar') = GuardedFields(sidecar)
                 /\ IF n = 1
                    THEN sidecar'.tasks[t].done /\ ~sidecar'.tasks[t].cancelled
                    ELSE /\ Len(sidecar'.tasks[t].stack) = n - 1
                         /\ sidecar'.tasks[t].stack[n - 1].ret = "False"
                         /\ sidecar'.running = t

\* C39: start() called in RUNNING or STARTING and stop() called in STOPPED
\* or STOPPING return False at once, without calling the engine and without
\* changing state, start_time, stop_time, restart_count or the stop event.
GuardsAreNoOps == [][GuardStep]_vars

\* the caller's stop() found the state STOPPED, left by the stop() of a
\* restart, and returned False with nothing changed
GuardsAreNoOpsWitness ==
    /\ sidecar.of = "ProcessManager" /\ ~sidecar.fails
    /\ At(sidecar, MainTask, "main", "after_stop")
    /\ TopFrame(sidecar, MainTask).ret = "False"
    /\ sidecar.state = "stopped"
    /\ sidecar.stop_time = 1
    /\ sidecar.restart_count = 1

\* ---------------------------------------------------------------------
\* SidecarCommunicator._listen_for_commands (communication.py lines
\* 68-96): the command loop over the lines of stdin.  A line is blank,
\* not JSON (json.loads raises JSONDecodeError), JSON that is not an
\* object (a list, a number, a string, null: the ** of line 80 raises
\* TypeError), an object that is not a command (pydantic's
\* ValidationError, a ValueError), or a command.  The response records
\* carry the number of the line they answer.
\* ---------------------------------------------------------------------
MaxStdinLines == 3

LineKinds == {"blank", "not_json", "json_not_object", "object_not_command", "command"}

StdinInputs == UNION { [1..n -> LineKinds] : n \in 0..MaxStdinLines }

NewCommandLoop(lines) ==
    [of |-> "CommandLoop", lines |-> lines, read |-> 0, pc |-> "while",
     running |-> TRUE, handled |-> <<>>, out |-> <<>>]

\* the exception lines 79-80 raise for a line, "none" for a command
ParseRaises(kind) ==
    CASE kind = "not_json" -> "JSONDecodeError"
      [] kind = "json_not_object" -> "TypeError"
      [] kind = "object_not_command" -> "ValidationError"
      [] OTHER -> "none"

\* line 81: except (json.JSONDecodeError, ValueError)
CaughtAsInvalidFormat(exc_type) == exc_type \in {"JSONDecodeError", "ValidationError"}

\* lines 70-75: the loop test and the read; a blank line is skipped
ReadStdin ==
    /\ sidecar.of = "CommandLoop" /\ sidecar.pc = "while" /\ sidecar.running
    /\ sidecar.read < Len(sidecar.lines)
    /\ sidecar' = [sidecar EXCEPT !.read = @ + 1,
                      !.pc = IF sidecar.lines[sidecar.read + 1] = "blank"
                             THEN "while" ELSE "parse"]
    /\ UNCHANGED <<orchestrator, limiter, task>>

\* lines 78-87: the parse; an invalid format is answered with id "unknown";
\* lines 94-95: any other exception is logged by the outer clause
ParseLine ==
    /\ sidecar.of = "CommandLoop" /\ sidecar.pc = "parse"
    /\ LET exc_type == ParseRaises(sidecar.lines[sidecar.read])
       IN  sidecar' =
             IF exc_type = "none" THEN [sidecar EXCEPT !.pc = "handle"]
             ELSE IF CaughtAsInvalidFormat(exc_type)
             THEN [sidecar EXCEPT !.pc = "while",
                      !.out = Append(@, [id |-> "unknown", status |-> "error",
                                         line |-> sidecar.read])]
             ELSE [sidecar EXCEPT !.pc = "sleep"]
    /\ UNCHANGED <<orchestrator, limiter, task>>

\* line 90 with lines 108-148: the handler is invoked and its result or its
\* exception is answered under the command's id
HandleLine ==
    /\ sidecar.of = "CommandLoop" /\ sidecar.pc = "handle"
    /\ \E st \in {"success", "error"} :
          sidecar' = [sidecar EXCEPT !.pc = "while",
                         !.handled = Append(@, sidecar.read),
                         !.out = Append(@, [id |-> "command", status |-> st,
                                            line |-> sidecar.read])]
    /\ UNCHANGED <<orchestrator, limiter, task>>

\* line 96: await asyncio.sleep(0.1)
LoopSleeps ==
    /\ sidecar.of = "CommandLoop" /\ sidecar.pc = "sleep"
    /\ sidecar' = [sidecar EXCEPT !.pc = "while"]
    /\ UNCHANGED <<orchestrator, limiter, task>>

\* stop(), lines 62-64, called while the loop is suspended
StopCommunicator ==
    /\ sidecar.of = "CommandLoop" /\ sidecar.running
    /\ sidecar' = [sidecar EXCEPT !.running = FALSE]
    /\ UNCHANGED <<orchestrator, limiter, task>>

\* line 70: the loop ends when running is false
LoopEnds ==
    /\ sidecar.of = "CommandLoop" /\ sidecar.pc = "while" /\ ~sidecar.running
    /\ sidecar' = [sidecar EXCEPT !.pc = "returned"]
    /\ UNCHANGED <<orchestrator, limiter, task>>

CommandLoopInit ==
    /\ \E lines \in StdinInputs : sidecar = NewCommandLoop(lines)
    /\ now = 0 /\ store = <<>> /\ callers = <<>>
    /\ input = <<>> /\ stack = <<>> /\ status = "idle" /\ result = <<>>
    /\ task = <<>>

CommandLoopNext ==
    \/ ReadStdin
    \/ ParseLine
    \/ HandleLine
    \/ LoopSleeps
    \/ StopCommunicator
    \/ LoopEnds

CommandLoopSpec == CommandLoopInit /\ [][CommandLoopNext]_vars

\* the responses that answer line k
Answers(k) == {j \in 1..Len(sidecar.out) : sidecar.out[j].line = k}

\* C40: the command loop survives bad input: once the loop is back at its
\* test, every line read that was not JSON or not a command has exactly one
\* response, an error with id "unknown", and the handler was not invoked for
\* it; every command read was handed to the handler once and has one
\* response; and the loop ends only when it was told to stop.
LoopSurvivesBadInput ==
    (sidecar.of = "CommandLoop" /\ sidecar.pc \in {"while", "returned"}) =>
       /\ \A k \in 1..sidecar.read :
             /\ sidecar.lines[k] \in {"not_json", "json_not_object", "object_not_command"} =>
                   /\ Cardinality(Answers(k)) = 1
                   /\ \A j \in Answers(k) :
                         sidecar.out[j].id = "unknown" /\ sidecar.out[j].status = "error"
                   /\ \A h \in 1..Len(sidecar.handled) : sidecar.handled[h] # k
             /\ sidecar.lines[k] = "command" =>
                   /\ Cardinality(Answers(k)) = 1
                   /\ Cardinality({h \in 1..Len(sidecar.handled) : sidecar.handled[h] = k}) = 1
       /\ sidecar.pc = "returned" => ~sidecar.running
====
